---- MODULE Spec2Model ----
(***************************************************************************)
(* A model of the timetabling solver: the graph colouring heuristics       *)
(* (src/src/algorithms/coloring.py), the domain model and constraint       *)
(* kernel (src/src/data_structures/timetabling.py), the graph reduction    *)
(* and the solvers (src/src/algorithms/*.py, src/experimental.py).         *)
(*                                                                         *)
(* Python's None is modelled as the empty sequence << >> and a present     *)
(* value v as << v >> wherever a parameter or field is Optional.           *)
(***************************************************************************)
EXTENDS Integers, Sequences, FiniteSets, TLC

(***************************************************************************)
(* Bounds of the model.                                                    *)
(***************************************************************************)
MaxVertices == 4
MaxColorsArg == 2
SecMaxCurriculums == 2
SecMaxStudents == 3
SecMaxCapacity == 2
SecMaxRooms == 1
KMaxCurriculums == 2
KMaxStudents == 2
KMaxRooms == 2
KMaxTeachers == 2
KMaxPeriod == 2
KMaxSections == 3
OMaxCurriculums == 1
OMaxRooms == 1
OMaxTeachers == 1
OMaxPeriod == 2
OMaxPreferences == 2
OMaxValue == 2
RMaxCurriculums == 2
RMaxRooms == 2
RMaxTeachers == 2
RMaxSections == 2
BMaxCurriculums == 2
BMaxStudents == 2
BMaxRooms == 2
BMaxCapacity == 2
BMaxPeriod == 2
BMaxTeachers == 2
BMaxSections == 3
DMaxCurriculums == 2
DMaxRooms == 1
DMaxCapacity == 2
DMaxTeachers == 2
GMaxCurriculums == 2
GMaxStudents == 2
GMaxRooms == 1
GMaxCapacity == 2
GMaxPeriod == 2
GMaxTeachers == 2
GMaxSections == 3
MaxElapsed == 1
UMaxCurriculums == 2
UMaxRooms == 1
UMaxCapacity == 2
UMaxTeachers == 2
EMaxCurriculums == 1
EMaxRooms == 1
EMaxTeachers == 1
EMaxPreferences == 1
EMaxValue == 2
GAMaxCurriculums == 1
GAMaxRooms == 1
GAMaxTeachers == 1
population_size == 2
generations == 12
tournament_size == 2
RegMaxCurriculums == 2
RegMaxRooms == 2
RegMaxTeachers == 2
RegMaxPreferences == 1
CapRoomCapacity == 50
CapMaxPeriod == 2
CapMaxTeachers == 2
MaxSide == 4
LMaxCourses == 1
LMaxTimeslot == 2
MaxVertexId == 4
AlphaDen == 10
MaxCandidates == 3
MaxCost == 1
RclMaxPreferences == 2
HMaxCurriculums == 1
HMaxRooms == 2
HMaxTeachers == 1
max_steps == 2
attempts == 5
max_iterations == 2
max_local_search_iterations == 2
LSMaxPreferences == 1
RLMaxCurriculums == 1
RLMaxRooms == 2
RLMaxTeachers == 1

None == << >>
Some(v) == << v >>

VARIABLES
  \* GraphInstance (graph.py)
  vertices, edges, adj_list,
  \* the running colouring heuristic (coloring.py)
  alg,           \* "idle", "greedy", "dsatur" or "rlf"
  cpc,           \* position inside the heuristic: "idle", "loop", "done", "spin"
  order,         \* greedy: the vertices still to visit, in visiting order
  max_colors,    \* greedy: the max_colors argument
  X, Y,          \* dsatur / rlf: the working vertex sets
  vertex_color,  \* the colours assigned so far (colors / vertex_color)
  color,         \* rlf: the colour of the class being built
  \* TimetablingInstance (timetabling.py, lines 86-100); every dict keyed by a
  \* running id is a sequence, the id being the index
  curriculums,       \* id -> [name, num_students, course_names]
  rooms,             \* id -> [name, capacity, availability]
  teachers,          \* id -> [name, course_names, availability]
  course_base_info,  \* insertion-ordered dict: a sequence of [name, curriculum_ids]
  periods,
  preferences,       \* list of [course_name, period, room_name, teacher_name, value]
  course_sections,   \* id -> [course_name, section_id, curriculum_students]
  assignments,       \* section id -> [period, room_id, teacher_id]
  ipc,               \* "reg": registering; "ready": sections created; "spin": a call never returns
  raised,            \* the exception the last top-level call ended with, None if it returned
  ret,               \* the value an evaluation or a solver returned last, None after other calls
  \* _repair_assignments (grasp.py 443-475, experimental.py 560-592)
  rpc,               \* "idle", "pass": inside the for loop, "done": returned
  rimpl,             \* "grasp" or "ga": whose _is_candidate_feasible is used
  rinput,            \* the dict as it was when the call was made
  rorder,            \* the keys of the dict, in its insertion order
  rtodo,             \* the keys the current pass has still to visit
  rchanged,          \* the flag changed
  \* solve_timetabling_bruteforce (timetabling_solver.py 240-330)
  bpc,               \* "idle", "enter": at the entry of dfs, "loop": in its for loop,
                     \* "returned": a dfs call gave False to its caller, "done"
  section_candidates, ordered_sections,
  stack,             \* for each open dfs call, the index of the candidate it has placed
  cand_idx,          \* the index of the candidate the innermost for loop looks at
  used_room_period, used_teacher_period, used_curr_period, result_assignments,
  found,
  timed_out,         \* time.time() - start > time_limit_sec has been observed
  \* solve_timetabling_with_graph_coloring (timetabling_solver.py 181-237)
  dpc,               \* "idle", "coloring": the heuristic runs, "done"
  heuristic,         \* the heuristic argument
  \* GRASPTimetabling._construct_solution (grasp.py 79-107)
  gpc,               \* "idle", "construct": in the for loop, "constructed", "raised"
  gorder,            \* the shuffled sections still to be given a candidate
  temp_assignments,
  \* two runs of one solver on one instance with one sequence of random draws
  run,               \* 0: no run yet, 1: the first run, 2: the second run
  tape,              \* the random draws of the first run, one entry per drawing step
  first_output,      \* what the first run returned, None before it has
  \* GRASPTimetabling._evaluate_solution (grasp.py 413-441)
  epc,               \* "idle", "repair": _repair_assignments runs, "done"
  original_assignments, \* the copy of instance.assignments taken on entry
  \* labs TimetablingInstance (labs/data_structures.py 28-29)
  availability,      \* (course, period) -> 0 or 1
  preassignment,     \* (course, period) -> 0 or 1
  lcall,             \* the last setter called, with its arguments
  \* GeneticAlgorithmTimetabling.solve (experimental.py 356-468)
  heap,              \* the Assignment objects created so far, by address
  population,        \* list of GAIndividual; a dict holds addresses of Assignment objects
  new_population,
  best_individual,   \* self.best_individual, None before the first evaluation
  gapc,              \* "idle", "generation": at the top of the for loop, "breed": in
                     \* the while loop, "done": the for loop is left, "raised"
  generation,
  no_improvement_count,
  \* GRASPTimetabling (grasp.py)
  alpha,             \* self.alpha, in units of 1 / AlphaDen
  candidate_list,    \* _select_from_rcl: the candidates argument
  selected,          \* _select_from_rcl: the outcome of random.choice(rcl)
  \* GeneticAlgorithmTimetabling._local_search (experimental.py, lines 594-725)
  lspc,              \* "idle", "step": at the top of the for loop, "attempts": in
                     \* the inner loop, "apply": at "3. Aplicar o revertir",
                     \* "done", "raised"
  individual,        \* None or the GAIndividual argument
  step,
  ls_section_id,     \* section_id
  original_assignment_data,
  attempt,           \* the moves tried so far in this step
  current_fitness,
  best_move_fitness,
  best_move_data,
  found_improvement,
  \* GRASPTimetabling.solve and _local_search (grasp.py, lines 48-77, 312-349)
  glspc,             \* _local_search: "idle", "round": at the test of the while
                     \* loop, "done"
  current_solution,  \* None or the GRASPSolution at hand
  assignment_order,  \* the key order of its assignments dict
  ls_improved,       \* improved
  iteration,         \* the rounds of _local_search so far
  best_solution,     \* self.best_solution
  grasp_iteration,   \* solve(): the iterations completed
  iteration_results  \* history: the solutions the iterations ended with

gvars == << vertices, edges, adj_list >>
cvars == << alg, cpc, order, max_colors, X, Y, vertex_color, color >>
ivars == << curriculums, rooms, teachers, course_base_info, periods, preferences,
            course_sections, assignments >>
rvars == << rpc, rimpl, rinput, rorder, rtodo, rchanged >>
bvars == << bpc, section_candidates, ordered_sections, stack, cand_idx, used_room_period, used_teacher_period, used_curr_period,
            result_assignments, found, timed_out >>
grvars == << gpc, gorder, temp_assignments >>
dtvars == << run, tape, first_output >>
evars == << epc, original_assignments >>
lvars == << availability, preassignment, lcall >>
gavars == << heap, population, new_population, best_individual, gapc, generation,
            no_improvement_count >>
rclvars == << alpha, candidate_list, selected >>
hcvars == << lspc, individual, step, ls_section_id, original_assignment_data, attempt,
            current_fitness, best_move_fitness, best_move_data, found_improvement >>
glsvars == << glspc, current_solution, assignment_order, ls_improved, iteration,
             best_solution, grasp_iteration, iteration_results >>
pvars == << rclvars, hcvars, glsvars >>
xvars == << dtvars, evars, lvars, gavars, pvars >>
svars == << rvars, bvars, dpc, heuristic, grvars, xvars >>
vars == << gvars, cvars, ivars, ipc, raised, ret, svars >>

(***************************************************************************)
(* Generic helpers.                                                        *)
(***************************************************************************)
Min2(a, b) == IF a <= b THEN a ELSE b
Max2(a, b) == IF a >= b THEN a ELSE b

Range(s) == { s[i] : i \in DOMAIN s }

\* All sequences that list every element of S exactly once.
Perms(S) ==
  { s \in [1..Cardinality(S) -> S] : \A i, j \in DOMAIN s : i # j => s[i] # s[j] }

\* The ascending list of a finite set of integers (Python's sorted()).
RECURSIVE sorted(_)
sorted(S) ==
  IF S = {} THEN << >>
  ELSE LET m == CHOOSE x \in S : \A y \in S : x <= y
       IN << m >> \o sorted(S \ {m})

(***************************************************************************)
(* GraphInstance: graph.py                                                 *)
(***************************************************************************)
\* __post_init__: the adjacency list built from the vertex and edge sets.
GraphInstance(V, E) ==
  [ vertices |-> V,
    edges    |-> E,
    adj_list |-> [ v \in V |-> { u \in V : << Min2(u, v), Max2(u, v) >> \in E /\ u # v } ] ]

get_neighbors(v) == adj_list[v]
get_degree(v) == Cardinality(adj_list[v])

\* The loop-free undirected graphs on the vertices 1..n.
EdgePairs(n) == { << u, v >> : u \in 1..n, v \in 1..n } \cap { p \in (1..n) \X (1..n) : p[1] < p[2] }

(***************************************************************************)
(* coloring.py                                                             *)
(***************************************************************************)
\* The colours of the already coloured neighbours of v.
neighbor_colors(v) ==
  { vertex_color[u] : u \in get_neighbors(v) \cap DOMAIN vertex_color }

\* A colour search that counts the colours in use instead of looking for a gap.
first_free_counting(used) == Cardinality(used) + 1

\* color = 1; while color in used: color += 1
first_free(used) ==
  CHOOSE c \in 1..(Cardinality(used) + 1) :
    c \notin used /\ \A d \in 1..(c - 1) : d \in used

\* No labs instance.
LabsIdle == availability = << >> /\ preassignment = << >> /\ lcall = None

\* No second run, no evaluation and no genetic algorithm.
\* The constructor's default alpha = 0.3 (grasp.py, line 31); no call of
\* _select_from_rcl has been made.
RclIdle == alpha = (3 * AlphaDen) \div 10 /\ candidate_list = << >> /\ selected = None

HillClimbIdle ==
  /\ lspc = "idle" /\ individual = None /\ step = 0 /\ ls_section_id = 0
  /\ original_assignment_data = << >> /\ attempt = 0 /\ current_fitness = 0
  /\ best_move_fitness = 0 /\ best_move_data = << >> /\ found_improvement = FALSE

GraspSearchIdle ==
  /\ glspc = "idle" /\ current_solution = None /\ assignment_order = << >>
  /\ ls_improved = FALSE /\ iteration = 0
  /\ best_solution = None /\ grasp_iteration = 0 /\ iteration_results = {}

ExtrasIdle ==
  /\ run = 0 /\ tape = << >> /\ first_output = None
  /\ epc = "idle" /\ original_assignments = << >>
  /\ heap = << >> /\ population = << >> /\ new_population = << >> /\ best_individual = None
  /\ gapc = "idle" /\ generation = 0 /\ no_improvement_count = 0
  /\ RclIdle
  /\ HillClimbIdle
  /\ GraspSearchIdle

\* No solver call is in progress.
CallsIdle ==
  /\ ExtrasIdle
  /\ ret = None
  /\ rpc = "idle" /\ rimpl = "" /\ rinput = << >> /\ rorder = << >> /\ rtodo = << >> /\ rchanged = FALSE
  /\ bpc = "idle" /\ section_candidates = << >> /\ ordered_sections = << >>
  /\ stack = << >> /\ cand_idx = 0
  /\ used_room_period = {} /\ used_teacher_period = {} /\ used_curr_period = {}
  /\ result_assignments = << >> /\ found = FALSE /\ timed_out = FALSE
  /\ dpc = "idle" /\ heuristic = ""
  /\ gpc = "idle" /\ gorder = << >> /\ temp_assignments = << >>

SolversIdle == CallsIdle /\ LabsIdle

ColorIdle ==
  /\ alg = "idle" /\ cpc = "idle" /\ order = << >> /\ max_colors = None
  /\ X = {} /\ Y = {} /\ vertex_color = << >> /\ color = 0

\* greedy_coloring(graph, order, randomize, max_colors): lines 28-37.
\* shuffled is the list random.shuffle(vertices) leaves behind.
call_greedy(order_arg, randomize, mc, shuffled) ==
  /\ alg = "idle"
  /\ alg' = "greedy"
  /\ order' = IF order_arg # None THEN order_arg[1]
              ELSE IF randomize THEN shuffled
              ELSE sorted(vertices)
  /\ max_colors' = mc
  /\ vertex_color' = << >>
  /\ cpc' = "loop"
  /\ UNCHANGED << X, Y, color, gvars, ivars, ipc, raised, ret, svars >>

\* One iteration of "for v in order" (lines 39-59).  The colour search
\* "while color in used or (max_colors is not None and color > max_colors)"
\* never ends once the first free colour exceeds max_colors.
greedy_step ==
  /\ alg = "greedy" /\ cpc = "loop" /\ order # << >>
  /\ LET v == Head(order)
         c == first_free(neighbor_colors(v))
     IN IF max_colors # None /\ c > max_colors[1]
        THEN /\ cpc' = "spin"
             /\ UNCHANGED << order, vertex_color >>
        ELSE /\ vertex_color' = (v :> c) @@ vertex_color
             /\ order' = Tail(order)
             /\ cpc' = "loop"
  /\ UNCHANGED << alg, max_colors, X, Y, color, gvars, ivars, ipc, raised, ret, svars >>

\* The for loop is exhausted: return colors, color_classes (line 61).
greedy_return ==
  /\ alg = "greedy" /\ cpc = "loop" /\ order = << >>
  /\ cpc' = "done"
  /\ UNCHANGED << alg, order, max_colors, X, Y, vertex_color, color, gvars, ivars, ipc, raised, ret, svars >>

\* dsatur_coloring, saturation(vertex): lines 79-88.
saturation(v) ==
  IF v \notin X THEN -1 ELSE Cardinality(neighbor_colors(v))

\* The vertices of X of maximal saturation, then of maximal degree (lines 93-115).
dsatur_candidates ==
  LET bySat == { v \in X : \A w \in X : saturation(w) <= saturation(v) }
  IN IF Cardinality(bySat) > 1
     THEN { v \in bySat : \A w \in bySat : get_degree(w) <= get_degree(v) }
     ELSE bySat

call_dsatur ==
  /\ alg = "idle"
  /\ alg' = "dsatur"
  /\ X' = vertices
  /\ vertex_color' = << >>
  /\ cpc' = "loop"
  /\ UNCHANGED << order, max_colors, Y, color, gvars, ivars, ipc, raised, ret, svars >>

\* One iteration of "while X" (lines 91-141); random.choice breaks the ties.
dsatur_step ==
  /\ alg = "dsatur" /\ cpc = "loop" /\ X # {}
  /\ \E v \in dsatur_candidates :
       /\ vertex_color' = (v :> first_free(neighbor_colors(v))) @@ vertex_color
       /\ X' = X \ {v}
  /\ UNCHANGED << alg, cpc, order, max_colors, Y, color, gvars, ivars, ipc, raised, ret, svars >>

dsatur_return ==
  /\ alg = "dsatur" /\ cpc = "loop" /\ X = {}
  /\ cpc' = "done"
  /\ UNCHANGED << alg, order, max_colors, X, Y, vertex_color, color, gvars, ivars, ipc, raised, ret, svars >>

\* rlf_coloring, select_vertex(): the vertices of X of maximal degree in the
\* subgraph induced by X (lines 170-184).
select_vertex_candidates ==
  { v \in X : \A w \in X :
      Cardinality(get_neighbors(w) \cap X) <= Cardinality(get_neighbors(v) \cap X) }

call_rlf ==
  /\ alg = "idle"
  /\ alg' = "rlf"
  /\ X' = vertices
  /\ Y' = {}
  /\ vertex_color' = << >>
  /\ color' = 1
  /\ cpc' = "loop"
  /\ UNCHANGED << order, max_colors, gvars, ivars, ipc, raised, ret, svars >>

\* One iteration of the inner "while X" (lines 168-201).
rlf_step ==
  /\ alg = "rlf" /\ cpc = "loop" /\ X # {}
  /\ \E v \in select_vertex_candidates :
       LET neighbors_in_X == get_neighbors(v) \cap X
       IN /\ vertex_color' = (v :> color) @@ vertex_color
          /\ Y' = Y \cup neighbors_in_X
          /\ X' = (X \ {v}) \ neighbors_in_X
  /\ UNCHANGED << alg, cpc, order, max_colors, color, gvars, ivars, ipc, raised, ret, svars >>

\* The end of a colour class without "color += 1".
rlf_next_class_same_color ==
  /\ alg = "rlf" /\ cpc = "loop" /\ X = {} /\ vertex_color # << >>
  /\ X' = Y
  /\ Y' = {}
  /\ color' = color
  /\ cpc' = IF Y = {} THEN "done" ELSE "loop"
  /\ UNCHANGED << alg, order, max_colors, vertex_color, gvars, ivars, ipc, raised, ret, svars >>

\* The inner loop ended with a colour class built: X = Y.copy(); Y.clear();
\* color += 1 (lines 204-209), and the outer "while X" is tested again.
rlf_next_class ==
  /\ alg = "rlf" /\ cpc = "loop" /\ X = {} /\ vertex_color # << >>
  /\ X' = Y
  /\ Y' = {}
  /\ color' = color + 1
  /\ cpc' = IF Y = {} THEN "done" ELSE "loop"
  /\ UNCHANGED << alg, order, max_colors, vertex_color, gvars, ivars, ipc, raised, ret, svars >>

\* The outer "while X" fails at once on a graph without vertices.
rlf_return_empty ==
  /\ alg = "rlf" /\ cpc = "loop" /\ X = {} /\ vertex_color = << >>
  /\ cpc' = "done"
  /\ UNCHANGED << alg, order, max_colors, X, Y, vertex_color, color, gvars, ivars, ipc, raised, ret, svars >>

(***************************************************************************)
(* TimetablingInstance: timetabling.py                                     *)
(***************************************************************************)
Courses == { "A", "B" }

\* __init__ (lines 86-100): the attributes an instance has.
InstanceAttributes ==
  { "name", "course_sections", "course_base_info", "rooms", "teachers", "curriculums",
    "periods", "preferences", "assignments", "_next_section_id", "_next_room_id",
    "_next_teacher_id", "_next_curriculum_id" }

EmptyInstance ==
  /\ curriculums = << >> /\ rooms = << >> /\ teachers = << >>
  /\ course_base_info = << >> /\ periods = {} /\ preferences = << >>
  /\ course_sections = << >> /\ assignments = << >>

\* The id counters: ids are handed out in sequence and never given back.
_next_curriculum_id == Len(curriculums) + 1
_next_room_id == Len(rooms) + 1
_next_teacher_id == Len(teachers) + 1
_next_section_id == Len(course_sections) + 1

course_names_registered == { course_base_info[i].name : i \in DOMAIN course_base_info }

\* The index of the first element of seq whose name is n, or 0 for Python's
\* None (_find_curriculum_by_name, _find_room_by_name, _find_teacher_by_name).
find_by_name(seq, n) ==
  IF \E i \in DOMAIN seq : seq[i].name = n
  THEN CHOOSE i \in DOMAIN seq : seq[i].name = n /\ \A j \in 1..(i - 1) : seq[j].name # n
  ELSE 0

_find_curriculum_by_name(n) == find_by_name(curriculums, n)
_find_room_by_name(n) == find_by_name(rooms, n)
_find_teacher_by_name(n) == find_by_name(teachers, n)

\* add_course storing the course under the curriculums found before the
\* unknown one is reported.
add_course_registering_first(name, curriculum_names) ==
  /\ IF name \in course_names_registered
     THEN /\ raised' = None
          /\ UNCHANGED course_base_info
     ELSE /\ course_base_info' = Append(course_base_info,
               [ name |-> name,
                 curriculum_ids |-> { _find_curriculum_by_name(curriculum_names[i]) :
                                        i \in DOMAIN curriculum_names } \ { 0 } ])
          /\ raised' = IF \E i \in DOMAIN curriculum_names :
                            _find_curriculum_by_name(curriculum_names[i]) = 0
                       THEN Some("ValueError") ELSE None
  /\ ret' = None
  /\ UNCHANGED << curriculums, rooms, teachers, periods, preferences, course_sections,
                  assignments, ipc, gvars, cvars, svars >>

\* add_course(name, curriculum_names): lines 102-120.  A name already
\* registered returns at once; an unknown curriculum raises ValueError.
add_course(name, curriculum_names) ==
  /\ IF name \in course_names_registered
     THEN /\ raised' = None
          /\ UNCHANGED course_base_info
     ELSE IF \E i \in DOMAIN curriculum_names :
               _find_curriculum_by_name(curriculum_names[i]) = 0
     THEN /\ raised' = Some("ValueError")
          /\ UNCHANGED course_base_info
     ELSE /\ course_base_info' = Append(course_base_info,
               [ name |-> name,
                 curriculum_ids |-> { _find_curriculum_by_name(curriculum_names[i]) :
                                        i \in DOMAIN curriculum_names } ])
          /\ raised' = None
  /\ ret' = None
  /\ UNCHANGED << curriculums, rooms, teachers, periods, preferences, course_sections,
                  assignments, ipc, gvars, cvars, svars >>

\* add_room(name, capacity, available_periods): lines 122-136.
add_room(name, capacity, available_periods) ==
  /\ rooms' = Append(rooms, [ name |-> name, capacity |-> capacity,
                              availability |-> available_periods ])
  /\ periods' = periods \cup available_periods
  /\ raised' = None
  /\ ret' = None
  /\ UNCHANGED << curriculums, teachers, course_base_info, preferences, course_sections,
                  assignments, ipc, gvars, cvars, svars >>

\* add_teacher(name, course_names, available_periods): lines 138-152.
add_teacher(name, course_names, available_periods) ==
  /\ teachers' = Append(teachers, [ name |-> name, course_names |-> course_names,
                                    availability |-> available_periods ])
  /\ periods' = periods \cup available_periods
  /\ raised' = None
  /\ ret' = None
  /\ UNCHANGED << curriculums, rooms, course_base_info, preferences, course_sections,
                  assignments, ipc, gvars, cvars, svars >>

\* add_curriculum(name, num_students, course_names): lines 154-173.  The loop
\* over the set course_names registers the courses not yet known in the
\* set's iteration order, new_order, and adds the new id to every course named.
add_curriculum(name, num_students, course_names, new_order) ==
  /\ Range(new_order) = course_names \ course_names_registered
  /\ Len(new_order) = Cardinality(course_names \ course_names_registered)
  /\ LET curriculum_id == _next_curriculum_id
         known == [ i \in DOMAIN course_base_info |->
                      IF course_base_info[i].name \in course_names
                      THEN [ course_base_info[i] EXCEPT
                               !.curriculum_ids = @ \cup { curriculum_id } ]
                      ELSE course_base_info[i] ]
         added == [ i \in DOMAIN new_order |->
                      [ name |-> new_order[i], curriculum_ids |-> { curriculum_id } ] ]
     IN /\ curriculums' = Append(curriculums,
             [ name |-> name, num_students |-> num_students, course_names |-> course_names ])
        /\ course_base_info' = known \o added
  /\ raised' = None
  /\ ret' = None
  /\ UNCHANGED << rooms, teachers, periods, preferences, course_sections,
                  assignments, ipc, gvars, cvars, svars >>

\* add_preference(course_name, period, room_name, teacher_name, value): the
\* definition of lines 541-557, which replaces that of lines 175-178.
add_preference(course_name, period, room_name, teacher_name, value) ==
  /\ IF \/ course_name \notin course_names_registered
        \/ room_name # None /\ _find_room_by_name(room_name[1]) = 0
        \/ teacher_name # None /\ _find_teacher_by_name(teacher_name[1]) = 0
     THEN /\ raised' = Some("ValueError")
          /\ UNCHANGED preferences
     ELSE /\ preferences' = Append(preferences,
               [ course_name |-> course_name, period |-> period, room_name |-> room_name,
                 teacher_name |-> teacher_name, value |-> value ])
          /\ raised' = None
  /\ ret' = None
  /\ UNCHANGED << curriculums, rooms, teachers, course_base_info, periods, course_sections,
                  assignments, ipc, gvars, cvars, svars >>

(***************************************************************************)
(* Section creation: timetabling.py, lines 180-293                         *)
(***************************************************************************)
\* CourseSection.total_students and .curriculum_ids (lines 13-19).
RECURSIVE SumOver(_, _)
SumOver(f, S) ==
  IF S = {} THEN 0
  ELSE LET k == CHOOSE x \in S : TRUE IN f[k] + SumOver(f, S \ {k})

\* The sum of F over the finite set S.
RECURSIVE SumSet(_, _)
SumSet(F(_), S) ==
  IF S = {} THEN 0
  ELSE LET k == CHOOSE x \in S : TRUE IN F(k) + SumSet(F, S \ {k})

total_students(section) ==
  SumOver(section.curriculum_students, DOMAIN section.curriculum_students)
curriculum_ids(section) == DOMAIN section.curriculum_students

\* A dict as a list of << key, value >> pairs, for the loops whose order matters.
items(f) == LET ks == sorted(DOMAIN f) IN [ i \in DOMAIN ks |-> << ks[i], f[ks[i]] >> ]

\* One curriculum in the first loop (lines 240-249): the full sections
\* emitted while students > max_capacity ...
RECURSIVE full_sections(_, _, _)
full_sections(curriculum_id, students, max_capacity) ==
  IF students > max_capacity
  THEN << (curriculum_id :> max_capacity) >>
         \o full_sections(curriculum_id, students - max_capacity, max_capacity)
  ELSE << >>

\* ... and the students left over.
RECURSIVE left_over(_, _)
left_over(students, max_capacity) ==
  IF students > max_capacity THEN left_over(students - max_capacity, max_capacity)
  ELSE students

\* remaining_curriculums.sort(key=lambda x: x[1], reverse=True): stable.
RECURSIVE sort_desc(_)
sort_desc(pairs) ==
  IF pairs = << >> THEN << >>
  ELSE LET i == CHOOSE k \in DOMAIN pairs :
                  /\ \A j \in DOMAIN pairs : pairs[j][2] <= pairs[k][2]
                  /\ \A j \in 1..(k - 1) : pairs[j][2] < pairs[k][2]
       IN << pairs[i] >>
            \o sort_desc([ j \in 1..(Len(pairs) - 1) |->
                             IF j < i THEN pairs[j] ELSE pairs[j + 1] ])

\* The greedy grouping loop (lines 260-288) from position i on.  st is
\* [sections, current_section, current_total].
RECURSIVE pack(_, _, _, _)
pack(remaining, i, st, max_capacity) ==
  IF i > Len(remaining) THEN st
  ELSE
    LET curriculum_id == remaining[i][1]
        students == remaining[i][2]
        closed == IF st.current_section # << >>
                  THEN Append(st.sections, st.current_section)
                  ELSE st.sections
        rest == left_over(students, max_capacity)
    IN IF st.current_total + students <= max_capacity
       THEN pack(remaining, i + 1,
                 [ sections |-> st.sections,
                   current_section |-> (curriculum_id :> students) @@ st.current_section,
                   current_total |-> st.current_total + students ],
                 max_capacity)
       ELSE IF students <= max_capacity
       THEN pack(remaining, i + 1,
                 [ sections |-> closed,
                   current_section |-> (curriculum_id :> students),
                   current_total |-> students ],
                 max_capacity)
       ELSE pack(remaining, i + 1,
                 [ sections |-> closed \o full_sections(curriculum_id, students, max_capacity),
                   current_section |-> IF rest > 0 THEN (curriculum_id :> rest) ELSE << >>,
                   current_total |-> IF rest > 0 THEN rest ELSE 0 ],
                 max_capacity)

\* The first loop over all curriculums, from position i of the dict's items.
RECURSIVE all_full_sections(_, _, _)
all_full_sections(its, i, max_capacity) ==
  IF i > Len(its) THEN << >>
  ELSE full_sections(its[i][1], its[i][2], max_capacity)
         \o all_full_sections(its, i + 1, max_capacity)

\* The split without the closing "if current_section: sections.append(...)".
_split_dropping_last(curriculum_students, max_capacity) ==
  LET its == items(curriculum_students)
      reduced == [ i \in DOMAIN its |->
                     << its[i][1],
                        IF left_over(its[i][2], max_capacity) > 0
                        THEN left_over(its[i][2], max_capacity) ELSE its[i][2] >> ]
  IN pack(sort_desc(SelectSeq(reduced, LAMBDA pr : pr[2] > 0)), 1,
          [ sections |-> all_full_sections(its, 1, max_capacity),
            current_section |-> << >>, current_total |-> 0 ],
          max_capacity).sections

\* _split_course_into_sections(course_name, curriculum_students, max_capacity):
\* lines 237-293; requires max_capacity > 0 to return.  The dict is walked in
\* ascending curriculum id, the order CPython gives a set of small integers.
_split_course_into_sections(curriculum_students, max_capacity) ==
  LET its == items(curriculum_students)
      sections == all_full_sections(its, 1, max_capacity)
      \* curriculum_students[curriculum_id] = students, when students > 0
      reduced == [ i \in DOMAIN its |->
                     << its[i][1],
                        IF left_over(its[i][2], max_capacity) > 0
                        THEN left_over(its[i][2], max_capacity) ELSE its[i][2] >> ]
      remaining_curriculums == SelectSeq(reduced, LAMBDA pr : pr[2] > 0)
      st == pack(sort_desc(remaining_curriculums), 1,
                 [ sections |-> sections, current_section |-> << >>, current_total |-> 0 ],
                 max_capacity)
  IN IF remaining_curriculums = << >> THEN sections
     ELSE IF st.current_section # << >> THEN Append(st.sections, st.current_section)
     ELSE st.sections

max_room_capacity ==
  CHOOSE c \in { rooms[r].capacity : r \in DOMAIN rooms } :
    \A r \in DOMAIN rooms : rooms[r].capacity <= c

\* The students of each curriculum of a course (lines 199-206).
course_curriculum_students(course_info) ==
  [ cid \in course_info.curriculum_ids \cap DOMAIN curriculums |->
      curriculums[cid].num_students ]

\* One section per course whatever the rooms hold.
sections_of_course_unsplit(course_info, max_capacity) ==
  LET curriculum_students == course_curriculum_students(course_info)
      total == SumOver(curriculum_students, DOMAIN curriculum_students)
  IN IF course_info.curriculum_ids = {} \/ total = 0 THEN << >>
     ELSE << [ course_name |-> course_info.name, section_id |-> 0,
               curriculum_students |-> curriculum_students ] >>

\* The sections one course yields (lines 193-235).
sections_of_course(course_info, max_capacity) ==
  LET curriculum_students == course_curriculum_students(course_info)
      total == SumOver(curriculum_students, DOMAIN curriculum_students)
      parts == _split_course_into_sections(curriculum_students, max_capacity)
  IN IF course_info.curriculum_ids = {} \/ total = 0 THEN << >>
     ELSE IF total <= max_capacity
     THEN << [ course_name |-> course_info.name, section_id |-> 0,
               curriculum_students |-> curriculum_students ] >>
     ELSE [ i \in DOMAIN parts |->
              [ course_name |-> course_info.name, section_id |-> i,
                curriculum_students |-> parts[i] ] ]

RECURSIVE sections_from(_, _)
sections_from(i, max_capacity) ==
  IF i > Len(course_base_info) THEN << >>
  ELSE sections_of_course(course_base_info[i], max_capacity)
         \o sections_from(i + 1, max_capacity)

\* The split loops "while students > max_capacity: ... students -= max_capacity"
\* never end when max_capacity = 0 and a course has students.
split_never_returns ==
  /\ max_room_capacity = 0
  /\ \E i \in DOMAIN course_base_info :
       LET cs == course_curriculum_students(course_base_info[i])
       IN SumOver(cs, DOMAIN cs) > 0

\* create_course_sections(): lines 180-235.
create_course_sections ==
  /\ IF rooms = << >>
     THEN /\ raised' = Some("ValueError")
          /\ UNCHANGED << course_sections, ipc >>
     ELSE IF split_never_returns
     THEN /\ course_sections' = << >>
          /\ ipc' = "spin"
          /\ raised' = None
     ELSE /\ course_sections' = sections_from(1, max_room_capacity)
          /\ ipc' = "ready"
          /\ raised' = None
  /\ ret' = None
  /\ UNCHANGED << curriculums, rooms, teachers, course_base_info, periods, preferences,
                  assignments, gvars, cvars, svars >>

(***************************************************************************)
(* The constraint kernel: timetabling.py, lines 295-452.  An assignment    *)
(* map A is a function from section ids to [period, room_id, teacher_id].  *)
(***************************************************************************)
\* assign_section(section_id, period, room_id, teacher_id): lines 295-303.
assign_section(section_id, period, room_id, teacher_id) ==
  /\ assignments' = [ s \in DOMAIN assignments \cup { section_id } |->
                        IF s = section_id
                        THEN [ period |-> period, room_id |-> room_id, teacher_id |-> teacher_id ]
                        ELSE assignments[s] ]
  /\ raised' = None
  /\ ret' = None
  /\ UNCHANGED << curriculums, rooms, teachers, course_base_info, periods, preferences,
                  course_sections, ipc, gvars, cvars, svars >>

\* The keys of the dicts teacher_periods, curriculum_periods and room_periods
\* (lines 344-349, 362-369, 380-385).
teacher_periods(A) == { << A[s].teacher_id, A[s].period >> : s \in DOMAIN A }
room_periods(A) == { << A[s].room_id, A[s].period >> : s \in DOMAIN A }
curriculum_periods(A) ==
  UNION { { << cid, A[s].period >> : cid \in curriculum_ids(course_sections[s]) } :
          s \in DOMAIN A }

\* The messages of each block of check_hard_constraints, one element per
\* message appended.  Lines 331-334:
missing_violations(A) ==
  LET missing_sections == DOMAIN course_sections \ DOMAIN A
  IN IF missing_sections # {} THEN { [ kind |-> "unassigned" ] } ELSE {}

\* lines 339-341
period_violations(A) ==
  { [ kind |-> "period_undefined", section |-> s ] :
      s \in { s \in DOMAIN A : A[s].period \notin periods } }

\* lines 351-357
teacher_overlaps(A) ==
  { [ kind |-> "teacher_overlap", key |-> k ] :
      k \in { k \in teacher_periods(A) :
                Cardinality({ s \in DOMAIN A : << A[s].teacher_id, A[s].period >> = k }) > 1 } }

\* lines 371-377
curriculum_overlaps(A) ==
  { [ kind |-> "curriculum_overlap", key |-> k ] :
      k \in { k \in curriculum_periods(A) :
                Cardinality({ s \in DOMAIN A :
                  /\ k[1] \in curriculum_ids(course_sections[s])
                  /\ A[s].period = k[2] }) > 1 } }

\* The room block run over the dict teacher_periods.
room_overlaps_by_teacher(A) ==
  { [ kind |-> "room_overlap", key |-> k ] :
      k \in { k \in teacher_periods(A) :
                Cardinality({ s \in DOMAIN A : << A[s].teacher_id, A[s].period >> = k }) > 1 } }

\* lines 387-393
room_overlaps(A) ==
  { [ kind |-> "room_overlap", key |-> k ] :
      k \in { k \in room_periods(A) :
                Cardinality({ s \in DOMAIN A : << A[s].room_id, A[s].period >> = k }) > 1 } }

\* lines 396-402
qualification_violations(A) ==
  { [ kind |-> "unqualified", section |-> s ] :
      s \in { s \in DOMAIN A :
                /\ A[s].teacher_id \in DOMAIN teachers
                /\ course_sections[s].course_name
                     \notin teachers[A[s].teacher_id].course_names } }

\* lines 405-418
availability_violations(A) ==
  { [ kind |-> "teacher_unavailable", section |-> s ] :
      s \in { s \in DOMAIN A :
                /\ A[s].teacher_id \in DOMAIN teachers
                /\ A[s].period \notin teachers[A[s].teacher_id].availability } }
  \cup
  { [ kind |-> "room_unavailable", section |-> s ] :
      s \in { s \in DOMAIN A :
                /\ A[s].room_id \in DOMAIN rooms
                /\ A[s].period \notin rooms[A[s].room_id].availability } }

\* lines 421-429
capacity_violations(A) ==
  { [ kind |-> "capacity", section |-> s ] :
      s \in { s \in DOMAIN A :
                /\ A[s].room_id \in DOMAIN rooms
                /\ s \in DOMAIN course_sections
                /\ rooms[A[s].room_id].capacity < total_students(course_sections[s]) } }

\* check_hard_constraints(): lines 326-432, on the assignment map A, whose
\* keys are section ids and whose teacher ids are registered.
violations_of(A) ==
  missing_violations(A)
  \cup ( IF A = << >> THEN {}
         ELSE period_violations(A) \cup teacher_overlaps(A) \cup curriculum_overlaps(A)
              \cup room_overlaps(A) \cup qualification_violations(A)
              \cup availability_violations(A) \cup capacity_violations(A) )

check_hard_constraints(A) ==
  [ is_valid |-> violations_of(A) = {}, violations |-> violations_of(A) ]

\* The value of the first preference that equals the assignment in all four
\* fields (lines 444-450), from position i of the preference list on.
RECURSIVE first_match_value(_, _, _)
first_match_value(A, s, i) ==
  IF i > Len(preferences) THEN 0
  ELSE IF /\ preferences[i].course_name = course_sections[s].course_name
          /\ preferences[i].period = Some(A[s].period)
          /\ preferences[i].room_name = Some(rooms[A[s].room_id].name)
          /\ preferences[i].teacher_name = Some(teachers[A[s].teacher_id].name)
       THEN preferences[i].value
       ELSE first_match_value(A, s, i + 1)

\* calculate_objective(): lines 434-452, on the assignment map A.  The
\* preference values are floats in the source and integers here.
calculate_objective(A) ==
  LET Value(s) == IF s \in DOMAIN course_sections THEN first_match_value(A, s, 1) ELSE 0
  IN SumSet(Value, DOMAIN A)

(***************************************************************************)
(* The hard constraints I1-I7 of an assignment map.                        *)
(***************************************************************************)
I1(A) == DOMAIN A = DOMAIN course_sections
I2(A) == \A s \in DOMAIN A :
           course_sections[s].course_name \in teachers[A[s].teacher_id].course_names
I3(A) == \A s \in DOMAIN A :
           /\ A[s].period \in rooms[A[s].room_id].availability
           /\ A[s].period \in teachers[A[s].teacher_id].availability
I4(A) == \A s \in DOMAIN A :
           rooms[A[s].room_id].capacity >= total_students(course_sections[s])
I5(A) == \A s1, s2 \in DOMAIN A :
           s1 # s2 => ~ (A[s1].teacher_id = A[s2].teacher_id /\ A[s1].period = A[s2].period)
I6(A) == \A s1, s2 \in DOMAIN A :
           s1 # s2 => ~ (A[s1].room_id = A[s2].room_id /\ A[s1].period = A[s2].period)
I7(A) == \A s1, s2 \in DOMAIN A :
           (s1 # s2 /\ A[s1].period = A[s2].period)
             => curriculum_ids(course_sections[s1]) \cap curriculum_ids(course_sections[s2]) = {}
I2to7(A) == I2(A) /\ I3(A) /\ I4(A) /\ I5(A) /\ I6(A) /\ I7(A)

(***************************************************************************)
(* The feasibility predicate and the repair routine: grasp.py lines        *)
(* 141-177 and 443-475, experimental.py lines 537-592.                     *)
(***************************************************************************)
\* The shared checks with the capacity test "room.capacity <= total_students".
candidate_fits_strictly(section_id, period, room_id, teacher_id, current_assignments) ==
  /\ ~ (rooms[room_id].capacity <= total_students(course_sections[section_id]))
  /\ period \in rooms[room_id].availability
  /\ period \in teachers[teacher_id].availability
  /\ \A a \in DOMAIN current_assignments :
       current_assignments[a].period = period =>
         /\ current_assignments[a].teacher_id # teacher_id
         /\ current_assignments[a].room_id # room_id
         /\ curriculum_ids(course_sections[section_id])
              \cap curriculum_ids(course_sections[a]) = {}

\* The checks the two versions share (grasp.py 149-177).
candidate_fits(section_id, period, room_id, teacher_id, current_assignments) ==
  /\ ~ (rooms[room_id].capacity < total_students(course_sections[section_id]))
  /\ period \in rooms[room_id].availability
  /\ period \in teachers[teacher_id].availability
  /\ \A a \in DOMAIN current_assignments :
       current_assignments[a].period = period =>
         /\ current_assignments[a].teacher_id # teacher_id
         /\ current_assignments[a].room_id # room_id
         /\ curriculum_ids(course_sections[section_id])
              \cap curriculum_ids(course_sections[a]) = {}

\* GRASPTimetabling._is_candidate_feasible: grasp.py 141-177.
grasp_is_candidate_feasible(section_id, period, room_id, teacher_id, current_assignments) ==
  candidate_fits(section_id, period, room_id, teacher_id, current_assignments)

\* GeneticAlgorithmTimetabling._is_candidate_feasible: experimental.py 537-558.
ga_is_candidate_feasible(section_id, period, room_id, teacher_id, current_assignments) ==
  /\ course_sections[section_id].course_name \in teachers[teacher_id].course_names
  /\ candidate_fits(section_id, period, room_id, teacher_id, current_assignments)

_is_candidate_feasible(impl, section_id, period, room_id, teacher_id, current_assignments) ==
  IF impl = "grasp"
  THEN grasp_is_candidate_feasible(section_id, period, room_id, teacher_id, current_assignments)
  ELSE ga_is_candidate_feasible(section_id, period, room_id, teacher_id, current_assignments)

qualified_teachers(section_id) ==
  { tid \in DOMAIN teachers :
      course_sections[section_id].course_name \in teachers[tid].course_names }

\* others = {k: v for k, v in assignments.items() if k != sid}
others(A, sid) == [ k \in DOMAIN A \ { sid } |-> A[k] ]

(***************************************************************************)
(* _repair_assignments: grasp.py 443-475, experimental.py 560-592.  The    *)
(* dict repaired is the one _evaluate_solution has installed as            *)
(* instance.assignments (grasp.py 417, 426); its Assignment objects are    *)
(* changed in place.                                                       *)
(***************************************************************************)
\* The (period, room, qualified teacher) triples the three nested loops can
\* reach first: every feasible triple is first under some shuffle.
repair_candidates(impl, sid, A) ==
  { c \in periods \X (DOMAIN rooms) \X qualified_teachers(sid) :
      _is_candidate_feasible(impl, sid, c[1], c[2], c[3], others(A, sid)) }

\* The call, up to the first "for sid, a in list(assignments.items())".
call_repair_assignments(impl, insertion_order) ==
  /\ rpc = "idle"
  /\ Range(insertion_order) = DOMAIN assignments
  /\ Len(insertion_order) = Cardinality(DOMAIN assignments)
  /\ rpc' = "pass"
  /\ rimpl' = impl
  /\ rinput' = assignments
  /\ rorder' = insertion_order
  /\ rtodo' = insertion_order
  /\ rchanged' = FALSE
  /\ ret' = None
  /\ raised' = None
  /\ UNCHANGED << ivars, ipc, gvars, cvars, bvars, dpc, heuristic, grvars, xvars >>

\* The step with a replacement that is not tested against the others.
repair_step_untested ==
  /\ rpc = "pass"
  /\ rtodo # << >>
  /\ LET sid == Head(rtodo)
         a == assignments[sid]
     IN IF _is_candidate_feasible(rimpl, sid, a.period, a.room_id, a.teacher_id,
                                  others(assignments, sid))
        THEN UNCHANGED << assignments, rchanged >>
        ELSE IF periods \X (DOMAIN rooms) \X qualified_teachers(sid) = {}
        THEN UNCHANGED << assignments, rchanged >>
        ELSE /\ \E c \in periods \X (DOMAIN rooms) \X qualified_teachers(sid) :
                  assignments' = [ assignments EXCEPT ![sid] =
                                     [ period |-> c[1], room_id |-> c[2], teacher_id |-> c[3] ] ]
             /\ rchanged' = TRUE
  /\ rtodo' = Tail(rtodo)
  /\ UNCHANGED << curriculums, rooms, teachers, course_base_info, periods, preferences,
                  course_sections, ipc, raised, ret, rpc, rimpl, rinput, rorder,
                  gvars, cvars, bvars, dpc, heuristic, grvars, xvars >>

\* One iteration of the for loop (lines 447-474).
repair_step ==
  /\ rpc = "pass"
  /\ rtodo # << >>
  /\ LET sid == Head(rtodo)
         a == assignments[sid]
     IN IF _is_candidate_feasible(rimpl, sid, a.period, a.room_id, a.teacher_id,
                                  others(assignments, sid))
        THEN UNCHANGED << assignments, rchanged >>
        ELSE IF repair_candidates(rimpl, sid, assignments) = {}
        THEN UNCHANGED << assignments, rchanged >>
        ELSE /\ \E c \in repair_candidates(rimpl, sid, assignments) :
                  assignments' = [ assignments EXCEPT ![sid] =
                                     [ period |-> c[1], room_id |-> c[2], teacher_id |-> c[3] ] ]
             /\ rchanged' = TRUE
  /\ rtodo' = Tail(rtodo)
  /\ UNCHANGED << curriculums, rooms, teachers, course_base_info, periods, preferences,
                  course_sections, ipc, raised, ret, rpc, rimpl, rinput, rorder,
                  gvars, cvars, bvars, dpc, heuristic, grvars, xvars >>

\* The end of a pass: "while changed" starts another pass or the dict is returned.
repair_pass_end ==
  /\ rpc = "pass"
  /\ rtodo = << >>
  /\ IF rchanged
     THEN /\ rtodo' = rorder
          /\ rchanged' = FALSE
          /\ UNCHANGED << rpc, ret >>
     ELSE /\ rpc' = "done"
          /\ ret' = Some([ fn |-> "_repair_assignments", assignments |-> assignments ])
          /\ UNCHANGED << rtodo, rchanged >>
  /\ UNCHANGED << ivars, ipc, raised, rimpl, rinput, rorder, gvars, cvars, bvars, dpc, heuristic, grvars, xvars >>


(***************************************************************************)
(* solve_timetabling_bruteforce: timetabling_solver.py, lines 240-330.     *)
(***************************************************************************)
\* qualified, with the fallback to every teacher (lines 253-255).
qualified_or_all(sid) ==
  IF qualified_teachers(sid) = {} THEN DOMAIN teachers ELSE qualified_teachers(sid)

\* The candidate list of a section (lines 251-270): the triples in the order
\* of the three nested loops, list(instance.periods) being ascending for the
\* small integers used here.
candidates_of(sid) ==
  LET ps == sorted(periods)
      qs == sorted(qualified_or_all(sid))
      np == Len(ps)
      nr == Len(rooms)
      nq == Len(qs)
      triple(i) == << ps[((i - 1) \div (nr * nq)) + 1],
                      (((i - 1) \div nq) % nr) + 1,
                      qs[((i - 1) % nq) + 1] >>
      all == [ i \in 1..(np * nr * nq) |-> triple(i) ]
      kept(c) == /\ ~ (rooms[c[2]].capacity < total_students(course_sections[sid]))
                 /\ c[1] \in rooms[c[2]].availability
                 /\ c[1] \in teachers[c[3]].availability
  IN SelectSeq(all, kept)

\* sorted(course_sections.keys(), key=lambda s: len(section_candidates[s])),
\* a stable sort (line 273).
RECURSIVE sorted_by_candidates(_, _)
sorted_by_candidates(S, cands) ==
  IF S = {} THEN << >>
  ELSE LET m == CHOOSE x \in S : \A y \in S :
                  \/ Len(cands[x]) < Len(cands[y])
                  \/ Len(cands[x]) = Len(cands[y]) /\ x <= y
       IN << m >> \o sorted_by_candidates(S \ { m }, cands)

\* conflicts() with the room and teacher tests looking at every period.
conflicts_in_any_period(section_id, period, room_id, teacher_id) ==
  \/ \E p \in periods : << room_id, p >> \in used_room_period
  \/ \E p \in periods : << teacher_id, p >> \in used_teacher_period
  \/ \E curr_id \in curriculum_ids(course_sections[section_id]) :
       << curr_id, period >> \in used_curr_period

\* conflicts(section_id, period, room_id, teacher_id): lines 280-291.
conflicts(section_id, period, room_id, teacher_id) ==
  \/ << room_id, period >> \in used_room_period
  \/ << teacher_id, period >> \in used_teacher_period
  \/ \E curr_id \in curriculum_ids(course_sections[section_id]) :
       << curr_id, period >> \in used_curr_period

\* place(section_id, period, room_id, teacher_id): lines 293-299.
place(section_id, period, room_id, teacher_id) ==
  /\ used_room_period' = used_room_period \cup { << room_id, period >> }
  /\ used_teacher_period' = used_teacher_period \cup { << teacher_id, period >> }
  /\ used_curr_period' = used_curr_period
       \cup { << curr_id, period >> : curr_id \in curriculum_ids(course_sections[section_id]) }
  /\ result_assignments' =
       [ s \in DOMAIN result_assignments \cup { section_id } |->
           IF s = section_id
           THEN [ period |-> period, room_id |-> room_id, teacher_id |-> teacher_id ]
           ELSE result_assignments[s] ]

\* unplace() discarding the curriculum pairs of every period.
unplace_every_period(section_id, period, room_id, teacher_id) ==
  /\ used_room_period' = used_room_period \ { << room_id, period >> }
  /\ used_teacher_period' = used_teacher_period \ { << teacher_id, period >> }
  /\ used_curr_period' = used_curr_period
       \ { << curr_id, p >> : curr_id \in curriculum_ids(course_sections[section_id]),
                              p \in periods }
  /\ result_assignments' =
       [ s \in DOMAIN result_assignments \ { section_id } |-> result_assignments[s] ]

\* unplace(section_id, period, room_id, teacher_id): lines 301-307.
unplace(section_id, period, room_id, teacher_id) ==
  /\ used_room_period' = used_room_period \ { << room_id, period >> }
  /\ used_teacher_period' = used_teacher_period \ { << teacher_id, period >> }
  /\ used_curr_period' = used_curr_period
       \ { << curr_id, period >> : curr_id \in curriculum_ids(course_sections[section_id]) }
  /\ result_assignments' =
       [ s \in DOMAIN result_assignments \ { section_id } |-> result_assignments[s] ]

\* The call up to dfs(0) (lines 246-328).
call_bruteforce ==
  /\ bpc = "idle"
  /\ bpc' = "enter"
  /\ section_candidates' = [ sid \in DOMAIN course_sections |-> candidates_of(sid) ]
  /\ ordered_sections' = sorted_by_candidates(DOMAIN course_sections,
                            [ sid \in DOMAIN course_sections |-> candidates_of(sid) ])
  /\ stack' = << >>
  /\ cand_idx' = 0
  /\ used_room_period' = {} /\ used_teacher_period' = {} /\ used_curr_period' = {}
  /\ result_assignments' = << >>
  /\ found' = FALSE
  /\ timed_out' = FALSE
  /\ ret' = None
  /\ raised' = None
  /\ UNCHANGED << ivars, ipc, gvars, cvars, rvars, dpc, heuristic, grvars, xvars >>

\* The values "elapsed = time.time() - start" (line 329) can have, in clock ticks.
ElapsedValues == 0..MaxElapsed

\* "return found, (result_assignments if found else {}), elapsed" (line 330).
bruteforce_result(f, assigned, elapsed) ==
  Some([ fn |-> "solve_timetabling_bruteforce", found |-> f,
         assignments |-> IF f THEN assigned ELSE << >>,
         elapsed |-> elapsed ])

\* dfs whose test of the clock does not end the call: the time-out is seen
\* and the search goes on.
dfs_enter_without_return ==
  /\ bpc = "enter"
  /\ \E exceeded \in IF timed_out THEN { TRUE } ELSE BOOLEAN :
       /\ timed_out' = exceeded
       /\ IF Len(stack) = Len(ordered_sections)
          THEN /\ found' = TRUE
               /\ bpc' = "done"
               /\ \E elapsed \in ElapsedValues :
                    ret' = bruteforce_result(TRUE, result_assignments, elapsed)
               /\ UNCHANGED cand_idx
          ELSE /\ bpc' = "loop"
               /\ cand_idx' = 1
               /\ UNCHANGED << found, ret >>
  /\ UNCHANGED << ivars, ipc, raised, gvars, cvars, rvars, dpc, heuristic, grvars, xvars, section_candidates, ordered_sections, stack,
                  used_room_period, used_teacher_period, used_curr_period,
                  result_assignments >>

\* The entry of dfs(idx), idx = Len(stack) (lines 313-318).  The clock only
\* moves forward: once the limit is exceeded it stays exceeded.
dfs_enter ==
  /\ bpc = "enter"
  /\ \E exceeded \in IF timed_out THEN { TRUE } ELSE BOOLEAN :
       IF exceeded
       THEN /\ timed_out' = TRUE
            /\ bpc' = "returned"
            /\ UNCHANGED << found, cand_idx, ret >>
       ELSE IF Len(stack) = Len(ordered_sections)
       THEN \* every open call returns True in turn and the function returns
            /\ found' = TRUE
            /\ bpc' = "done"
            /\ \E elapsed \in ElapsedValues :
                 ret' = bruteforce_result(TRUE, result_assignments, elapsed)
            /\ UNCHANGED << timed_out, cand_idx >>
       ELSE /\ bpc' = "loop"
            /\ cand_idx' = 1
            /\ UNCHANGED << timed_out, found, ret >>
  /\ UNCHANGED << ivars, ipc, raised, gvars, cvars, rvars, dpc, heuristic, grvars, xvars, section_candidates, ordered_sections, stack,
                  used_room_period, used_teacher_period, used_curr_period,
                  result_assignments >>

\* One iteration of the for loop of dfs (lines 319-326).
dfs_loop ==
  /\ bpc = "loop"
  /\ LET sid == ordered_sections[Len(stack) + 1]
         cands == section_candidates[sid]
     IN IF cand_idx > Len(cands)
        THEN /\ bpc' = "returned"
             /\ UNCHANGED << stack, cand_idx, used_room_period, used_teacher_period,
                             used_curr_period, result_assignments >>
        ELSE IF conflicts(sid, cands[cand_idx][1], cands[cand_idx][2], cands[cand_idx][3])
        THEN /\ cand_idx' = cand_idx + 1
             /\ UNCHANGED << bpc, stack, used_room_period, used_teacher_period,
                             used_curr_period, result_assignments >>
        ELSE /\ place(sid, cands[cand_idx][1], cands[cand_idx][2], cands[cand_idx][3])
             /\ stack' = Append(stack, cand_idx)
             /\ cand_idx' = 0
             /\ bpc' = "enter"
  /\ UNCHANGED << ivars, ipc, raised, ret, gvars, cvars, rvars, dpc, heuristic, grvars, xvars, section_candidates, ordered_sections,
                  found, timed_out >>

\* A dfs call has returned False: its caller undoes the placement and goes
\* on with the next candidate (line 325), or dfs(0) has returned (lines 328-330).
dfs_returned ==
  /\ bpc = "returned"
  /\ IF stack = << >>
     THEN /\ bpc' = "done"
          /\ \E elapsed \in ElapsedValues :
               ret' = bruteforce_result(found, result_assignments, elapsed)
          /\ UNCHANGED << stack, cand_idx, used_room_period, used_teacher_period,
                          used_curr_period, result_assignments >>
     ELSE LET sid == ordered_sections[Len(stack)]
              c == section_candidates[sid][stack[Len(stack)]]
          IN /\ unplace(sid, c[1], c[2], c[3])
             /\ cand_idx' = stack[Len(stack)] + 1
             /\ stack' = SubSeq(stack, 1, Len(stack) - 1)
             /\ bpc' = "loop"
             /\ UNCHANGED ret
  /\ UNCHANGED << ivars, ipc, raised, gvars, cvars, rvars, dpc, heuristic, grvars, xvars, section_candidates, ordered_sections,
                  found, timed_out >>


(***************************************************************************)
(* timetabling_to_graph (reduction.py, lines 5-132) and                    *)
(* solve_timetabling_with_graph_coloring (timetabling_solver.py 181-237).  *)
(***************************************************************************)
curriculum_offset == 0
room_offset == 10000
teacher_offset == 20000
period_offset == 30000
course_offset == 40000

UEdge(u, v) == << Min2(u, v), Max2(u, v) >>

SectionPairs == { pr \in (DOMAIN course_sections) \X (DOMAIN course_sections) : pr[1] < pr[2] }

\* The vertices timetabling_to_graph creates (lines 23-74).
reduction_vertices ==
  { cid + curriculum_offset : cid \in DOMAIN curriculums }
  \cup { rid + room_offset : rid \in DOMAIN rooms }
  \cup { tid + teacher_offset : tid \in DOMAIN teachers }
  \cup { period + period_offset : period \in periods }
  \cup { sid + course_offset : sid \in DOMAIN course_sections }

\* The edges timetabling_to_graph creates (lines 76-120).
reduction_edges ==
  UNION { { UEdge(sid + course_offset, cid + curriculum_offset) :
              cid \in curriculum_ids(course_sections[sid]) } :
          sid \in DOMAIN course_sections }
  \cup { UEdge(pr[1] + course_offset, pr[2] + course_offset) :
           pr \in { pr \in SectionPairs :
                      curriculum_ids(course_sections[pr[1]])
                        \cap curriculum_ids(course_sections[pr[2]]) # {} } }
  \cup UNION { { UEdge(tid + teacher_offset, sid + course_offset) :
                   sid \in { sid \in DOMAIN course_sections :
                               course_sections[sid].course_name \in teachers[tid].course_names } } :
               tid \in DOMAIN teachers }
  \cup UNION { { UEdge(rid + room_offset, period + period_offset) :
                   period \in rooms[rid].availability } : rid \in DOMAIN rooms }
  \cup UNION { { UEdge(tid + teacher_offset, period + period_offset) :
                   period \in teachers[tid].availability } : tid \in DOMAIN teachers }
  \cup { UEdge(pr[1] + course_offset, pr[2] + course_offset) :
           pr \in { pr \in SectionPairs :
                      total_students(course_sections[pr[1]])
                        + total_students(course_sections[pr[2]]) > max_room_capacity } }

timetabling_to_graph == GraphInstance(reduction_vertices, reduction_edges)

\* section_periods (lines 199-204) and "section_periods.get(section_id, 1)".
section_period(coloring, section_id) ==
  IF section_id + course_offset \in DOMAIN coloring
  THEN coloring[section_id + course_offset]
  ELSE 1

\* The assignment loop (lines 210-237) from section i on.  st is
\* [assignments, used_capacity, used_teachers].
RECURSIVE assign_loop(_, _, _)
assign_loop(i, st, coloring) ==
  IF i > Len(course_sections) THEN st
  ELSE
    LET section == course_sections[i]
        period == section_period(coloring, i)
        available_rooms ==
          { rid \in DOMAIN rooms :
              /\ period \in rooms[rid].availability
              /\ st.used_capacity[period][rid] + total_students(section)
                   <= rooms[rid].capacity }
        room_id == CHOOSE rid \in available_rooms : \A o \in available_rooms : rid <= o
        with_room == [ st EXCEPT !.used_capacity[period][room_id] = @ + total_students(section) ]
        available_teachers ==
          { tid \in DOMAIN teachers :
              /\ section.course_name \in teachers[tid].course_names
              /\ period \in teachers[tid].availability
              /\ tid \notin st.used_teachers[period] }
        teacher_id == CHOOSE tid \in available_teachers : \A o \in available_teachers : tid <= o
    IN IF available_rooms = {} THEN assign_loop(i + 1, st, coloring)
       ELSE IF available_teachers = {} THEN assign_loop(i + 1, with_room, coloring)
       ELSE assign_loop(i + 1,
              [ with_room EXCEPT
                  !.used_teachers[period] = @ \cup { teacher_id },
                  !.assignments =
                     [ s \in DOMAIN @ \cup { i } |->
                         IF s = i
                         THEN [ period |-> period, room_id |-> room_id,
                                teacher_id |-> teacher_id ]
                         ELSE @[s] ] ],
              coloring)

\* The call up to the start of the heuristic (lines 188-196).  The reduction
\* takes max() of the room capacities and raises ValueError without rooms.
call_graph_coloring(h) ==
  /\ dpc = "idle" /\ alg = "idle"
  /\ heuristic' = h
  /\ ret' = None
  /\ IF rooms = << >>
     THEN /\ raised' = Some("ValueError")
          /\ dpc' = "done"
          /\ UNCHANGED gvars
     ELSE /\ vertices' = timetabling_to_graph.vertices
          /\ edges' = timetabling_to_graph.edges
          /\ adj_list' = timetabling_to_graph.adj_list
          /\ IF h \in { "dsatur", "rlf" }
             THEN raised' = None /\ dpc' = "coloring"
             ELSE raised' = Some("ValueError") /\ dpc' = "done"
  /\ UNCHANGED << ivars, ipc, cvars, rvars, bvars, grvars, xvars >>

\* The heuristic has returned: lines 198-237.
graph_coloring_assign ==
  /\ dpc = "coloring" /\ cpc = "done"
  /\ assignments' =
       assign_loop(1,
         [ assignments |-> assignments,
           used_capacity |-> [ p \in periods |-> [ rid \in DOMAIN rooms |-> 0 ] ],
           used_teachers |-> [ p \in periods |-> {} ] ],
         vertex_color).assignments
  /\ dpc' = "done"
  /\ raised' = None
  /\ ret' = None
  /\ UNCHANGED << curriculums, rooms, teachers, course_base_info, periods, preferences,
                  course_sections, ipc, gvars, cvars, rvars, bvars, heuristic, grvars, xvars >>


(***************************************************************************)
(* GRASPTimetabling.solve, up to the end of the first                      *)
(* _construct_solution: grasp.py, lines 49-60 and 79-310.                  *)
(***************************************************************************)
\* _generate_candidates (lines 109-139): the feasible triples with a
\* qualified teacher.
grasp_candidates(section_id, current_assignments) ==
  { c \in periods \X (DOMAIN rooms) \X qualified_teachers(section_id) :
      grasp_is_candidate_feasible(section_id, c[1], c[2], c[3], current_assignments) }

\* _evaluate_candidate reads self.instance.preferred_periods (line 194).
evaluate_candidate_raises == "preferred_periods" \notin InstanceAttributes

\* _get_random_assignment (lines 268-310): the triples the shuffled loops can
\* return, every feasible one being first under some shuffle ...
random_feasible(section_id, current_assignments) ==
  { c \in periods \X (DOMAIN rooms) \X qualified_or_all(section_id) :
      grasp_is_candidate_feasible(section_id, c[1], c[2], c[3], current_assignments) }

\* ... and the triples of the three random.choice calls (lines 305-310).
random_any(section_id) == periods \X (DOMAIN rooms) \X qualified_or_all(section_id)

\* Costs are kept exact: a cost is the integer cost * cost_scale, where
\* cost_scale is twice the product of the room capacities, so that the
\* wasted-space term (capacity - total_students) / capacity * 0.5 of line 199
\* is an integer.
RECURSIVE capacity_product(_)
capacity_product(n) == IF n = 0 THEN 1 ELSE rooms[n].capacity * capacity_product(n - 1)
cost_scale == 2 * capacity_product(Len(rooms))

\* _evaluate_candidate after line 194 (lines 198-230): the wasted space and
\* the bonus of every preference the candidate matches, a None field of the
\* preference matching anything.
_evaluate_candidate(section_id, period, room_id, teacher_id) ==
  LET section == course_sections[section_id]
      room == rooms[room_id]
      match(pref) ==
        /\ pref.course_name = section.course_name
        /\ pref.period = None \/ pref.period = Some(period)
        /\ pref.room_name = None \/ _find_room_by_name(pref.room_name[1]) = room_id
        /\ pref.teacher_name = None \/ _find_teacher_by_name(pref.teacher_name[1]) = teacher_id
      bonus(i) == IF match(preferences[i]) THEN preferences[i].value ELSE 0
  IN (room.capacity - total_students(section)) * (cost_scale \div (2 * room.capacity))
       - cost_scale * SumSet(bonus, DOMAIN preferences)

\* _generate_candidates (lines 109-139) with the costs, as the set of
\* (period, room_id, teacher_id, cost) tuples of the list.
_generate_candidates(section_id, current_assignments) ==
  { << c[1], c[2], c[3], _evaluate_candidate(section_id, c[1], c[2], c[3]) >> :
      c \in grasp_candidates(section_id, current_assignments) }

\* candidates.sort(key=lambda x: x[3]) of line 239: a stable insertion by cost.
insert_by_cost(seq, x) ==
  LET k == Cardinality({ i \in DOMAIN seq : seq[i][4] <= x[4] })
  IN SubSeq(seq, 1, k) \o << x >> \o SubSeq(seq, k + 1, Len(seq))

RECURSIVE sort_by_cost(_)
sort_by_cost(seq) ==
  IF seq = << >> THEN << >>
  ELSE insert_by_cost(sort_by_cost(SubSeq(seq, 1, Len(seq) - 1)), seq[Len(seq)])

\* The restricted candidate list of lines 242-247 for the sorted list, with
\* threshold = min_cost + alpha * (max_cost - min_cost) and alpha = a / AlphaDen:
\* c[3] <= threshold, both sides multiplied by AlphaDen.
restricted_candidate_list(candidates, a) ==
  LET min_cost == candidates[1][4]
      max_cost == candidates[Len(candidates)][4]
  IN SelectSeq(candidates,
       LAMBDA c : c[4] * AlphaDen <= min_cost * AlphaDen + a * (max_cost - min_cost))

\* _select_from_rcl (lines 232-266): the tuples random.choice(rcl) can return.
_select_from_rcl(candidates, a) ==
  LET rcl == restricted_candidate_list(sort_by_cost(candidates), a)
  IN { rcl[i] : i \in DOMAIN rcl }

\* solve() up to the first for loop of _construct_solution (lines 56-93);
\* shuffled is the outcome of random.shuffle(sections).
call_grasp_solve(shuffled) ==
  /\ gpc = "idle"
  /\ Range(shuffled) = DOMAIN course_sections
  /\ Len(shuffled) = Len(course_sections)
  /\ gpc' = "construct"
  /\ gorder' = shuffled
  /\ assignment_order' = shuffled
  /\ temp_assignments' = << >>
  /\ ret' = None
  /\ raised' = None
  /\ UNCHANGED << ivars, ipc, gvars, cvars, rvars, bvars, dpc, heuristic, dtvars, evars, lvars,
                  gavars, rclvars, hcvars, glspc, current_solution, ls_improved, iteration,
                  best_solution, grasp_iteration, iteration_results >>

\* One iteration of the for loop (lines 93-104).
grasp_construct_step ==
  /\ gpc = "construct"
  /\ gorder # << >>
  /\ LET section_id == Head(gorder)
         candidates == grasp_candidates(section_id, temp_assignments)
         feasible == random_feasible(section_id, temp_assignments)
         Placed(c) ==
           [ s \in DOMAIN temp_assignments \cup { section_id } |->
               IF s = section_id
               THEN [ period |-> c[1], room_id |-> c[2], teacher_id |-> c[3] ]
               ELSE temp_assignments[s] ]
     IN IF candidates # {}
        THEN IF evaluate_candidate_raises
             THEN /\ raised' = Some("AttributeError")
                  /\ gpc' = "raised"
                  /\ UNCHANGED << gorder, temp_assignments >>
             ELSE /\ \E order_of_list \in Perms(_generate_candidates(section_id,
                                                        temp_assignments)) :
                       \E c \in _select_from_rcl(order_of_list, alpha) :
                         temp_assignments' = Placed(c)
                  /\ gorder' = Tail(gorder)
                  /\ UNCHANGED << raised, gpc >>
        ELSE IF feasible # {}
        THEN /\ \E c \in feasible : temp_assignments' = Placed(c)
             /\ gorder' = Tail(gorder)
             /\ UNCHANGED << raised, gpc >>
        ELSE IF random_any(section_id) = {}
        THEN \* random.choice of an empty list
             /\ raised' = Some("IndexError")
             /\ gpc' = "raised"
             /\ UNCHANGED << gorder, temp_assignments >>
        ELSE /\ \E c \in random_any(section_id) : temp_assignments' = Placed(c)
             /\ gorder' = Tail(gorder)
             /\ UNCHANGED << raised, gpc >>
  /\ UNCHANGED << ivars, ipc, ret, gvars, cvars, rvars, bvars, dpc, heuristic, xvars >>

\* The loop is over: _evaluate_solution(temp_assignments) is called (line 107).
grasp_constructed ==
  /\ gpc = "construct"
  /\ gorder = << >>
  /\ gpc' = "constructed"
  /\ UNCHANGED << ivars, ipc, raised, ret, gvars, cvars, rvars, bvars, dpc, heuristic, xvars,
                  gorder, temp_assignments >>


(***************************************************************************)
(* SpecColoring: the three heuristics on every loop-free graph on 1..n,    *)
(* n <= MaxVertices.                                                       *)
(***************************************************************************)
MaxColorsArgs == { None } \cup { Some(k) : k \in 1..MaxColorsArg }

InitColoring ==
  /\ \E n \in 0..MaxVertices : \E E \in SUBSET EdgePairs(n) :
       LET g == GraphInstance(1..n, E)
       IN /\ vertices = g.vertices
          /\ edges = g.edges
          /\ adj_list = g.adj_list
  /\ ColorIdle
  /\ EmptyInstance /\ ipc = "idle" /\ raised = None /\ SolversIdle

NextColoring ==
  \/ /\ alg = "idle"
     /\ \E mc \in MaxColorsArgs : call_greedy(None, FALSE, mc, << >>)
  \/ /\ alg = "idle"
     /\ \E mc \in MaxColorsArgs : \E o \in Perms(vertices) :
          \/ call_greedy(Some(o), FALSE, mc, << >>)
          \/ call_greedy(None, TRUE, mc, o)
  \/ greedy_step
  \/ greedy_return
  \/ call_dsatur
  \/ dsatur_step
  \/ dsatur_return
  \/ call_rlf
  \/ rlf_step
  \/ rlf_next_class
  \/ rlf_return_empty

SpecColoring == InitColoring /\ [][NextColoring]_vars

\* The returned mapping is total and proper.
ProperColoring ==
  /\ DOMAIN vertex_color = vertices
  /\ \A v \in vertices : vertex_color[v] \in Nat \ {0}
  /\ \A e \in edges : vertex_color[e[1]] # vertex_color[e[2]]

\* C5: dsatur_coloring, rlf_coloring and greedy_coloring (max_colors = None)
\* return a total mapping from the vertices to colours 1, 2, ... in which no
\* two adjacent vertices have the same colour, whatever the tie-breaks and
\* the visiting order.
C5_ColoringsProper ==
  (cpc = "done" /\ (alg = "greedy" => max_colors = None)) => ProperColoring

\* A triangle with a pendant vertex has been coloured by RLF.
C5_Witness ==
  /\ cpc = "done" /\ alg = "rlf"
  /\ Cardinality(edges) >= 4
  /\ ProperColoring

(***************************************************************************)
(* SpecSections: registration of curriculums, courses and rooms, then      *)
(* create_course_sections.                                                 *)
(***************************************************************************)
CurriculumNames == << "C1", "C2", "C3", "C4", "C5" >>
RoomNames == << "R1", "R2", "R3", "R4" >>
TeacherNames == << "T1", "T2", "T3", "T4" >>

GraphIdle == vertices = {} /\ edges = {} /\ adj_list = << >>

InitSections ==
  /\ EmptyInstance /\ ipc = "reg" /\ raised = None /\ SolversIdle
  /\ GraphIdle /\ ColorIdle

\* The lists of at most two curriculum names add_course is called with; "C?"
\* names no curriculum.
CurriculumNameLists ==
  LET names == { curriculums[i].name : i \in DOMAIN curriculums } \cup { "C?" }
  IN { << >> } \cup { << n >> : n \in names } \cup { << n, m >> : n \in names, m \in names }

NextSections ==
  \/ /\ ipc = "reg"
     /\ Len(curriculums) < SecMaxCurriculums
     /\ \E n \in 0..SecMaxStudents : \E cs \in { {"A"}, {"A", "B"} } :
          \E new_order \in Perms(cs \ course_names_registered) :
            add_curriculum(CurriculumNames[_next_curriculum_id], n, cs, new_order)
  \/ /\ ipc = "reg"
     /\ Len(course_base_info) < Cardinality(Courses)
     /\ \E name \in Courses : \E names \in CurriculumNameLists : add_course(name, names)
  \/ /\ ipc = "reg"
     /\ Len(rooms) < SecMaxRooms
     /\ \E c \in 0..SecMaxCapacity : add_room(RoomNames[_next_room_id], c, {})
  \/ /\ ipc = "reg"
     /\ create_course_sections

SpecSections == InitSections /\ [][NextSections]_vars

\* The sections created for the course of course_base_info[i].
SectionsOf(i) ==
  { s \in DOMAIN course_sections : course_sections[s].course_name = course_base_info[i].name }

\* The students of curriculum cid placed in section s.
placed(s, cid) ==
  IF cid \in curriculum_ids(course_sections[s])
  THEN course_sections[s].curriculum_students[cid] ELSE 0

\* C4: after create_course_sections, for every course with total_students > 0
\* the students of the course's sections add up to the students of the course's
\* curriculums, curriculum by curriculum, and no section holds more students
\* than the largest room.
C4_SectionSplitting ==
  ipc = "ready" =>
    \A i \in DOMAIN course_base_info :
      LET cs == course_curriculum_students(course_base_info[i])
          total == SumOver(cs, DOMAIN cs)
      IN total > 0 =>
           /\ LET SectionTotal(s) == total_students(course_sections[s])
              IN SumSet(SectionTotal, SectionsOf(i)) = total
           /\ \A cid \in DOMAIN cs :
                LET Placed(s) == placed(s, cid)
                IN SumSet(Placed, SectionsOf(i)) = curriculums[cid].num_students
           /\ \A s \in SectionsOf(i) :
                total_students(course_sections[s]) <= max_room_capacity

\* A course of two curriculums was split into several sections, one of
\* them shared by two curriculums.
C4_Witness ==
  /\ ipc = "ready"
  /\ \E i \in DOMAIN course_base_info :
       /\ Cardinality(course_base_info[i].curriculum_ids) = 2
       /\ Cardinality(SectionsOf(i)) >= 2
       /\ \E s \in SectionsOf(i) : Cardinality(curriculum_ids(course_sections[s])) = 2
       /\ \E s \in SectionsOf(i) : course_sections[s].section_id = 2

(***************************************************************************)
(* SpecKernel: instances built through the registration operations and     *)
(* create_course_sections, then arbitrary assign_section calls and calls   *)
(* of check_hard_constraints.                                              *)
(***************************************************************************)
\* check_hard_constraints() reads course_sections[section_id] for every
\* assignment (line 364) and teachers[...] / rooms[...] for every overlap
\* (lines 353, 389): a key that is not registered raises KeyError.
check_raises_KeyError(A) ==
  /\ A # << >>
  /\ \/ \E s \in DOMAIN A : s \notin DOMAIN course_sections
     \/ \E s1, s2 \in DOMAIN A :
          /\ s1 # s2 /\ A[s1].period = A[s2].period
          /\ \/ A[s1].teacher_id = A[s2].teacher_id /\ A[s1].teacher_id \notin DOMAIN teachers
             \/ A[s1].room_id = A[s2].room_id /\ A[s1].room_id \notin DOMAIN rooms

call_check_hard_constraints ==
  /\ IF check_raises_KeyError(assignments)
     THEN /\ raised' = Some("KeyError")
          /\ ret' = None
     ELSE /\ raised' = None
          /\ ret' = Some([ fn |-> "check_hard_constraints",
                           is_valid |-> check_hard_constraints(assignments).is_valid,
                           violations |-> check_hard_constraints(assignments).violations ])
  /\ UNCHANGED << ivars, ipc, gvars, cvars, svars >>

InitKernel ==
  /\ EmptyInstance /\ ipc = "reg" /\ raised = None /\ SolversIdle
  /\ GraphIdle /\ ColorIdle

\* The rooms and teachers the instances are built from.
KRoomInputs ==
  { [ capacity |-> 1, available_periods |-> {1, 2} ],
    [ capacity |-> 2, available_periods |-> {1} ] }
KTeacherInputs ==
  { [ course_names |-> {"A"}, available_periods |-> {1, 2} ],
    [ course_names |-> {"A", "B"}, available_periods |-> {1} ] }

NextKernel ==
  \/ /\ ipc = "reg"
     /\ Len(curriculums) < KMaxCurriculums
     /\ \E n \in 1..KMaxStudents : \E cs \in { {"A"}, {"A", "B"} } :
          \E new_order \in Perms(cs \ course_names_registered) :
            add_curriculum(CurriculumNames[_next_curriculum_id], n, cs, new_order)
  \/ /\ ipc = "reg"
     /\ Len(rooms) < KMaxRooms
     /\ \E i \in KRoomInputs :
          add_room(RoomNames[_next_room_id], i.capacity, i.available_periods)
  \/ /\ ipc = "reg"
     /\ Len(teachers) < KMaxTeachers
     /\ \E i \in KTeacherInputs :
          add_teacher(TeacherNames[_next_teacher_id], i.course_names, i.available_periods)
  \/ /\ ipc = "reg"
     /\ create_course_sections
  \/ /\ ipc = "ready"
     /\ Len(course_sections) <= KMaxSections
     /\ \E s \in DOMAIN course_sections : \E p \in 1..KMaxPeriod :
          \E r \in DOMAIN rooms : \E t \in DOMAIN teachers :
            assign_section(s, p, r, t)
  \/ /\ ipc = "ready"
     /\ call_check_hard_constraints

SpecKernel == InitKernel /\ [][NextKernel]_vars

check_returned == ret # None /\ ret[1].fn = "check_hard_constraints"

\* C2: whenever check_hard_constraints reports an assignment map feasible,
\* the map satisfies I1-I7; whenever it does not, it gives at least one
\* violation message.
C2_FeasibleImpliesHardConstraints ==
  check_returned =>
    /\ ret[1].is_valid =>
         /\ I1(assignments) /\ I2(assignments) /\ I3(assignments) /\ I4(assignments)
         /\ I5(assignments) /\ I6(assignments) /\ I7(assignments)
    /\ ~ ret[1].is_valid => ret[1].violations # {}

\* check_hard_constraints accepted a map of two sections in one room.
C2_Witness ==
  /\ check_returned /\ ret[1].is_valid
  /\ \E s1, s2 \in DOMAIN assignments :
       s1 # s2 /\ assignments[s1].room_id = assignments[s2].room_id

\* C6: a candidate that _is_candidate_feasible accepts against a placed set
\* satisfying I2-I7 extends it to a set satisfying I2-I7, in the GRASP and in
\* the genetic-algorithm version.
C6_FeasibleCandidateKeepsInvariants ==
  \A impl \in { "grasp", "ga" } :
    \A s \in DOMAIN course_sections \ DOMAIN assignments :
      \A p \in periods : \A r \in DOMAIN rooms : \A t \in DOMAIN teachers :
        ( /\ ipc = "ready"
          /\ I2to7(assignments)
          /\ _is_candidate_feasible(impl, s, p, r, t, assignments) )
        => I2to7((s :> [ period |-> p, room_id |-> r, teacher_id |-> t ]) @@ assignments)

(***************************************************************************)
(* SpecObjective: small instances with preferences, assign_section calls   *)
(* and calls of calculate_objective.                                       *)
(***************************************************************************)
\* calculate_objective() reads rooms[...] and teachers[...] (lines 447-448)
\* once the course and the period of a preference equal the assignment's.
objective_raises_KeyError(A) ==
  \E s \in DOMAIN A \cap DOMAIN course_sections : \E i \in DOMAIN preferences :
    /\ preferences[i].course_name = course_sections[s].course_name
    /\ preferences[i].period = Some(A[s].period)
    /\ \/ A[s].room_id \notin DOMAIN rooms
       \/ A[s].teacher_id \notin DOMAIN teachers

call_calculate_objective ==
  /\ IF objective_raises_KeyError(assignments)
     THEN /\ raised' = Some("KeyError")
          /\ ret' = None
     ELSE /\ raised' = None
          /\ ret' = Some([ fn |-> "calculate_objective",
                           value |-> calculate_objective(assignments) ])
  /\ UNCHANGED << ivars, ipc, gvars, cvars, svars >>

InitObjective ==
  /\ EmptyInstance /\ ipc = "reg" /\ raised = None /\ SolversIdle
  /\ GraphIdle /\ ColorIdle

OptionalPeriods == { None } \cup { Some(p) : p \in 1..OMaxPeriod }
OptionalRoomNames == { None, Some(RoomNames[1]) }
OptionalTeacherNames == { None, Some(TeacherNames[1]) }

NextObjective ==
  \/ /\ ipc = "reg"
     /\ Len(curriculums) < OMaxCurriculums
     /\ \E cs \in { {"A"}, {"A", "B"} } :
          \E new_order \in Perms(cs \ course_names_registered) :
            add_curriculum(CurriculumNames[_next_curriculum_id], 1, cs, new_order)
  \/ /\ ipc = "reg"
     /\ Len(rooms) < OMaxRooms
     /\ \E i \in KRoomInputs :
          add_room(RoomNames[_next_room_id], i.capacity, i.available_periods)
  \/ /\ ipc = "reg"
     /\ Len(teachers) < OMaxTeachers
     /\ \E i \in KTeacherInputs :
          add_teacher(TeacherNames[_next_teacher_id], i.course_names, i.available_periods)
  \/ /\ ipc = "reg"
     /\ create_course_sections
  \/ /\ ipc = "ready"
     /\ Len(preferences) < OMaxPreferences
     /\ \E c \in Courses : \E p \in OptionalPeriods : \E r \in OptionalRoomNames :
          \E t \in OptionalTeacherNames : \E v \in 1..OMaxValue :
            add_preference(c, p, r, t, v)
  \/ /\ ipc = "ready"
     /\ \E s \in DOMAIN course_sections : \E p \in 1..OMaxPeriod :
          \E r \in DOMAIN rooms : \E t \in DOMAIN teachers :
            assign_section(s, p, r, t)
  \/ /\ ipc = "ready"
     /\ call_calculate_objective

SpecObjective == InitObjective /\ [][NextObjective]_vars

objective_returned == ret # None /\ ret[1].fn = "calculate_objective"

\* A preference field that is None matches every value of the assignment.
field_matches(field, value) == field = None \/ field = Some(value)

\* The value of the first preference that matches the assignment of section s
\* with None as a wildcard, 0 if none does.
RECURSIVE first_wildcard_match_value(_, _, _)
first_wildcard_match_value(A, s, i) ==
  IF i > Len(preferences) THEN 0
  ELSE IF /\ preferences[i].course_name = course_sections[s].course_name
          /\ field_matches(preferences[i].period, A[s].period)
          /\ field_matches(preferences[i].room_name, rooms[A[s].room_id].name)
          /\ field_matches(preferences[i].teacher_name, teachers[A[s].teacher_id].name)
       THEN preferences[i].value
       ELSE first_wildcard_match_value(A, s, i + 1)

wildcard_objective(A) ==
  LET Value(s) == first_wildcard_match_value(A, s, 1)
  IN SumSet(Value, DOMAIN A)

\* C3: calculate_objective returns the sum, over the assigned sections, of
\* the value of the first preference in list order that matches the section's
\* assignment, a null preference field matching anything, and 0 for a section
\* with no matching preference.
C3_ObjectiveFirstWildcardMatch ==
  objective_returned => ret[1].value = wildcard_objective(assignments)

(***************************************************************************)
(* SpecRepair: instances and assignment maps as in SpecKernel, then a call *)
(* of _repair_assignments of either class.                                 *)
(***************************************************************************)
InitRepair ==
  /\ EmptyInstance /\ ipc = "reg" /\ raised = None /\ SolversIdle
  /\ GraphIdle /\ ColorIdle

NextRepair ==
  \/ /\ ipc = "reg"
     /\ Len(curriculums) < RMaxCurriculums
     /\ \E cs \in { {"A"}, {"A", "B"} } :
          \E new_order \in Perms(cs \ course_names_registered) :
            add_curriculum(CurriculumNames[_next_curriculum_id], 1, cs, new_order)
  \/ /\ ipc = "reg"
     /\ Len(rooms) < RMaxRooms
     /\ \E i \in KRoomInputs :
          add_room(RoomNames[_next_room_id], i.capacity, i.available_periods)
  \/ /\ ipc = "reg"
     /\ Len(teachers) < RMaxTeachers
     /\ \E i \in KTeacherInputs :
          add_teacher(TeacherNames[_next_teacher_id], i.course_names, i.available_periods)
  \/ /\ ipc = "reg"
     /\ create_course_sections
  \/ /\ ipc = "ready" /\ rpc = "idle"
     /\ Len(course_sections) <= RMaxSections
     /\ \E s \in DOMAIN course_sections : \E p \in periods :
          \E r \in DOMAIN rooms : \E t \in DOMAIN teachers :
            assign_section(s, p, r, t)
  \/ /\ ipc = "ready"
     /\ \E impl \in { "grasp", "ga" } : \E o \in Perms(DOMAIN assignments) :
          call_repair_assignments(impl, o)
  \/ repair_step
  \/ repair_pass_end

SpecRepair == InitRepair /\ [][NextRepair]_vars

repair_returned == rpc = "done" /\ ret # None /\ ret[1].fn = "_repair_assignments"

\* C10: _repair_assignments of either class, called on an assignment map for
\* which check_hard_constraints reports feasible (so complete), returns a map
\* equal to its input and has changed no assignment.
C10_RepairKeepsFeasibleInput ==
  (repair_returned /\ check_hard_constraints(rinput).is_valid) =>
    /\ ret[1].assignments = rinput
    /\ assignments = rinput

\* A repair returned from a feasible map of two sections.
C10_Witness ==
  /\ repair_returned
  /\ check_hard_constraints(rinput).is_valid
  /\ Cardinality(DOMAIN rinput) >= 2
  /\ \E s \in DOMAIN rinput : rooms[rinput[s].room_id].capacity = total_students(course_sections[s])

(***************************************************************************)
(* SpecBrute: instances built through registration and                     *)
(* create_course_sections, then one call of solve_timetabling_bruteforce.  *)
(***************************************************************************)
InitBrute ==
  /\ EmptyInstance /\ ipc = "reg" /\ raised = None /\ SolversIdle
  /\ GraphIdle /\ ColorIdle

NextBrute ==
  \/ /\ ipc = "reg"
     /\ Len(curriculums) < BMaxCurriculums
     /\ \E n \in 1..BMaxStudents : \E cs \in { {"A"}, {"A", "B"} } :
          \E new_order \in Perms(cs \ course_names_registered) :
            add_curriculum(CurriculumNames[_next_curriculum_id], n, cs, new_order)
  \/ /\ ipc = "reg"
     /\ Len(rooms) < BMaxRooms
     /\ \E c \in 1..BMaxCapacity : \E ps \in SUBSET (1..BMaxPeriod) :
          add_room(RoomNames[_next_room_id], c, ps)
  \/ /\ ipc = "reg"
     /\ Len(teachers) < BMaxTeachers
     /\ \E i \in KTeacherInputs :
          add_teacher(TeacherNames[_next_teacher_id], i.course_names, i.available_periods)
  \/ /\ ipc = "reg"
     /\ create_course_sections
  \/ /\ ipc = "ready"
     /\ Len(course_sections) <= BMaxSections
     /\ call_bruteforce
  \/ dfs_enter
  \/ dfs_loop
  \/ dfs_returned

SpecBrute == InitBrute /\ [][NextBrute]_vars

bruteforce_returned ==
  bpc = "done" /\ ret # None /\ ret[1].fn = "solve_timetabling_bruteforce"

\* C1: whenever solve_timetabling_bruteforce returns found = true, the map it
\* returns has exactly one assignment for every section and satisfies I2-I7,
\* also on instances where a section has no qualified teacher.
C1_BruteforceSound ==
  (bruteforce_returned /\ ret[1].found) =>
    /\ I1(ret[1].assignments)
    /\ I2to7(ret[1].assignments)

\* Every complete assignment map over the registered periods, rooms and teachers.
CompleteAssignments ==
  [ DOMAIN course_sections ->
      [ period : periods, room_id : DOMAIN rooms, teacher_id : DOMAIN teachers ] ]

\* C9: when a complete assignment satisfying I1-I7 exists and the time limit
\* is never observed exceeded, solve_timetabling_bruteforce returns found = true.
C9_BruteforceExhaustive ==
  ( /\ bruteforce_returned
    /\ ~ timed_out
    /\ \E A \in CompleteAssignments : I2to7(A) )
  => ret[1].found

\* Two sections sharing one room were placed in its two periods, the second
\* one after a candidate of it was found in conflict.
C9_Witness ==
  /\ bruteforce_returned /\ ~ timed_out /\ ret[1].found
  /\ Len(course_sections) = 2 /\ Len(rooms) = 1
  /\ rooms[1].availability = {1, 2}
  /\ ret[1].assignments[1].period # ret[1].assignments[2].period
  /\ stack[2] > 1
  /\ I2to7(ret[1].assignments)

(***************************************************************************)
(* SpecDriver: small instances, then one call of                           *)
(* solve_timetabling_with_graph_coloring.  The graph has a room vertex     *)
(* whenever a heuristic runs, so rlf never sees an empty graph here.       *)
(***************************************************************************)
InitDriver ==
  /\ EmptyInstance /\ ipc = "reg" /\ raised = None /\ SolversIdle
  /\ GraphIdle /\ ColorIdle

DTeacherInputs ==
  { [ course_names |-> {"A", "B"}, available_periods |-> {1, 2} ],
    [ course_names |-> {"A"}, available_periods |-> {1} ] }

NextDriver ==
  \/ /\ ipc = "reg" /\ dpc = "idle"
     /\ Len(curriculums) < DMaxCurriculums
     /\ \E cs \in { {"A"}, {"B"} } :
          \E new_order \in Perms(cs \ course_names_registered) :
            add_curriculum(CurriculumNames[_next_curriculum_id], 1, cs, new_order)
  \/ /\ ipc = "reg" /\ dpc = "idle"
     /\ Len(rooms) < DMaxRooms
     /\ \E c \in 1..DMaxCapacity : add_room(RoomNames[_next_room_id], c, {1, 2})
  \/ /\ ipc = "reg" /\ dpc = "idle"
     /\ Len(teachers) < DMaxTeachers
     /\ \E i \in DTeacherInputs :
          add_teacher(TeacherNames[_next_teacher_id], i.course_names, i.available_periods)
  \/ /\ ipc = "reg" /\ dpc = "idle"
     /\ create_course_sections
  \/ /\ ipc \in { "reg", "ready" }
     /\ \E h \in { "dsatur", "rlf", "greedy" } : call_graph_coloring(h)
  \/ /\ dpc = "coloring" /\ heuristic = "dsatur"
     /\ call_dsatur
  \/ dsatur_step
  \/ dsatur_return
  \/ /\ dpc = "coloring" /\ heuristic = "rlf"
     /\ call_rlf
  \/ rlf_step
  \/ rlf_next_class
  \/ graph_coloring_assign

SpecDriver == InitDriver /\ [][NextDriver]_vars

graph_coloring_returned == dpc = "done" /\ raised = None

\* C7: after solve_timetabling_with_graph_coloring the sections that were
\* assigned satisfy I2-I7 among themselves; a section left without a room or
\* a teacher stays unassigned.
C7_DriverAssignmentsSatisfyConstraints ==
  graph_coloring_returned => I2to7(assignments)

(***************************************************************************)
(* SpecGrasp: instances built through registration and                     *)
(* create_course_sections, then a call of GRASPTimetabling.solve.          *)
(***************************************************************************)
InitGrasp ==
  /\ EmptyInstance /\ ipc = "reg" /\ raised = None /\ SolversIdle
  /\ GraphIdle /\ ColorIdle

NextGrasp ==
  \/ /\ ipc = "reg"
     /\ Len(curriculums) < GMaxCurriculums
     /\ \E n \in 1..GMaxStudents : \E cs \in { {"A"}, {"A", "B"} } :
          \E new_order \in Perms(cs \ course_names_registered) :
            add_curriculum(CurriculumNames[_next_curriculum_id], n, cs, new_order)
  \/ /\ ipc = "reg"
     /\ Len(rooms) < GMaxRooms
     /\ \E c \in 1..GMaxCapacity : \E ps \in SUBSET (1..GMaxPeriod) :
          add_room(RoomNames[_next_room_id], c, ps)
  \/ /\ ipc = "reg"
     /\ Len(teachers) < GMaxTeachers
     /\ \E cs \in { {"A"}, {"A", "B"} } : \E ps \in SUBSET (1..GMaxPeriod) :
          add_teacher(TeacherNames[_next_teacher_id], cs, ps)
  \/ /\ ipc = "reg"
     /\ create_course_sections
  \/ /\ ipc = "ready"
     /\ Len(course_sections) <= GMaxSections
     /\ \E shuffled \in Perms(DOMAIN course_sections) : call_grasp_solve(shuffled)
  \/ grasp_construct_step
  \/ grasp_constructed

SpecGrasp == InitGrasp /\ [][NextGrasp]_vars

\* C8: on every instance built through the registration operations followed
\* by create_course_sections, the solvers finish by returning their result
\* and never by raising an exception: here GRASPTimetabling.solve.
C8_SolversNeverRaise ==
  ipc = "ready" => ~ (gpc = "raised" /\ raised # None)

(***************************************************************************)
(* SpecRuns: one instance, then two runs of one solver (the graph-colouring *)
(* driver with DSATUR or RLF, or solve_timetabling_bruteforce), the second *)
(* run starting from the instance as it was and receiving the random       *)
(* draws of the first.  The clock is not part of the random source.        *)
(***************************************************************************)
\* A choice that ignores the seeded source: it differs from run to run.
random_choice_unseeded(seq, r) == seq[((r + run) % Len(seq)) + 1]

\* random.choice(seq) (coloring.py 118, 184): seq[i] for the index i the
\* generator yields, r being the draw that index is computed from.
random_choice(seq, r) == seq[(r % Len(seq)) + 1]

\* The candidate list of the step at hand; "for vertex in X" walks a set of
\* integers, whose order its contents and history fix: ascending here.
tie_candidates ==
  IF alg = "dsatur" THEN sorted(dsatur_candidates) ELSE sorted(select_vertex_candidates)

\* The selections made so far in the running heuristic.
selections_made == Cardinality(DOMAIN vertex_color)

\* The generator is asked for the index of the next selection: first run.
\* dsatur_coloring asks only when more than one candidate is left (line 118).
draw_index ==
  /\ run = 1
  /\ alg \in { "dsatur", "rlf" } /\ cpc = "loop" /\ X # {}
  /\ Len(tape) = selections_made
  /\ \E r \in 0..(Len(tie_candidates) - 1) : tape' = Append(tape, r)
  /\ UNCHANGED << gvars, cvars, ivars, ipc, raised, ret, rvars, bvars, dpc, heuristic,
                  grvars, run, first_output, evars, lvars, gavars, pvars >>

\* The selection of the step at hand is the one the draw gives.
selection_follows_tape ==
  /\ run \in { 1, 2 }
  /\ Len(tape) > selections_made
  /\ DOMAIN vertex_color' =
       DOMAIN vertex_color \cup { random_choice(tie_candidates, tape[selections_made + 1]) }

\* What a finished run has produced: the driver fills instance.assignments
\* in place, the bruteforce solver returns its tuple.
run_finished == dpc = "done" \/ bpc = "done"

run_output ==
  IF bpc = "done"
  THEN [ solver |-> "bruteforce", timed_out |-> timed_out, raised |-> raised,
         found |-> ret[1].found, assignments |-> ret[1].assignments,
         elapsed |-> ret[1].elapsed ]
  ELSE [ solver |-> heuristic, timed_out |-> FALSE, raised |-> raised,
         found |-> TRUE, assignments |-> assignments, elapsed |-> 0 ]

begin_first_run ==
  /\ run = 0 /\ ipc = "ready"
  /\ run' = 1
  /\ UNCHANGED << gvars, cvars, ivars, ipc, raised, ret, rvars, bvars, dpc, heuristic,
                  grvars, tape, first_output, evars, lvars, gavars, pvars >>

\* The first run is over: the same solver is run again on the instance as it
\* was before the first run, with the generator seeded as before.
begin_second_run ==
  /\ run = 1 /\ run_finished
  /\ first_output' = Some(run_output)
  /\ run' = 2
  /\ assignments' = << >>
  /\ vertices' = {} /\ edges' = {} /\ adj_list' = << >>
  /\ alg' = "idle" /\ cpc' = "idle" /\ order' = << >> /\ max_colors' = None
  /\ X' = {} /\ Y' = {} /\ vertex_color' = << >> /\ color' = 0
  /\ bpc' = "idle" /\ section_candidates' = << >> /\ ordered_sections' = << >>
  /\ stack' = << >> /\ cand_idx' = 0
  /\ used_room_period' = {} /\ used_teacher_period' = {} /\ used_curr_period' = {}
  /\ result_assignments' = << >> /\ found' = FALSE /\ timed_out' = FALSE
  /\ dpc' = "idle" /\ heuristic' = ""
  /\ raised' = None /\ ret' = None
  /\ UNCHANGED << curriculums, rooms, teachers, course_base_info, periods, preferences,
                  course_sections, ipc, rvars, grvars, tape, evars, lvars, gavars, pvars >>

\* The solver a run may call: any in the first run, the same in the second.
may_call(solver) ==
  /\ run \in { 1, 2 }
  /\ dpc = "idle" /\ bpc = "idle"
  /\ run = 2 => first_output[1].solver = solver

InitRuns ==
  /\ EmptyInstance /\ ipc = "reg" /\ raised = None /\ SolversIdle
  /\ GraphIdle /\ ColorIdle

NextRuns ==
  \/ /\ ipc = "reg"
     /\ Len(curriculums) < UMaxCurriculums
     /\ \E cs \in { {"A"}, {"B"} } :
          \E new_order \in Perms(cs \ course_names_registered) :
            add_curriculum(CurriculumNames[_next_curriculum_id], 1, cs, new_order)
  \/ /\ ipc = "reg"
     /\ Len(rooms) < UMaxRooms
     /\ \E c \in 1..UMaxCapacity : add_room(RoomNames[_next_room_id], c, {1, 2})
  \/ /\ ipc = "reg"
     /\ Len(teachers) < UMaxTeachers
     /\ \E i \in DTeacherInputs :
          add_teacher(TeacherNames[_next_teacher_id], i.course_names, i.available_periods)
  \/ /\ ipc = "reg"
     /\ create_course_sections
  \/ begin_first_run
  \/ \E h \in { "dsatur", "rlf" } : may_call(h) /\ call_graph_coloring(h)
  \/ /\ dpc = "coloring" /\ heuristic = "dsatur"
     /\ call_dsatur
  \/ /\ dpc = "coloring" /\ heuristic = "rlf"
     /\ call_rlf
  \/ draw_index
  \/ dsatur_step /\ selection_follows_tape
  \/ dsatur_return
  \/ rlf_step /\ selection_follows_tape
  \/ rlf_next_class
  \/ graph_coloring_assign
  \/ may_call("bruteforce") /\ call_bruteforce
  \/ dfs_enter
  \/ dfs_loop
  \/ dfs_returned
  \/ begin_second_run

SpecRuns == InitRuns /\ [][NextRuns]_vars

\* Both runs are over and neither has observed the time limit exceeded.
both_runs_finished ==
  /\ run = 2 /\ run_finished
  /\ ~ first_output[1].timed_out /\ ~ run_output.timed_out

GRASPSolution(A, cost, is_feasible, violations) ==
  [ fn |-> "_evaluate_solution", assignments |-> A, cost |-> cost,
    is_feasible |-> is_feasible, violations |-> violations ]

\* The cost of lines 421 and 434-436 for the map installed in the instance.
evaluated_cost(A) ==
  IF check_hard_constraints(A).is_valid
  THEN calculate_objective(A)
  ELSE calculate_objective(A) + 1000 * Cardinality(check_hard_constraints(A).violations)

\* Lines 414-421: the instance's map is put aside, the argument installed and
\* checked.  A feasible argument is evaluated at once (lines 438-441).
call_evaluate_solution(A) ==
  /\ epc = "idle" /\ rpc = "idle"
  /\ original_assignments' = assignments
  /\ raised' = None
  /\ IF check_hard_constraints(A).is_valid
     THEN /\ epc' = "done"
          /\ assignments' = assignments
          /\ ret' = Some(GRASPSolution(A, evaluated_cost(A), TRUE, {}))
     ELSE /\ epc' = "entered"
          /\ assignments' = A
          /\ ret' = None
  /\ UNCHANGED << curriculums, rooms, teachers, course_base_info, periods, preferences,
                  course_sections, ipc, gvars, cvars, rvars, bvars, dpc, heuristic, grvars,
                  dtvars, lvars, gavars, pvars >>

\* Lines 424-441 after _repair_assignments has returned: the repaired map is
\* checked again and costed, the instance's own map is put back.
evaluate_solution_return ==
  /\ epc = "entered" /\ rpc = "done"
  /\ epc' = "done"
  /\ ret' = Some(GRASPSolution(assignments, evaluated_cost(assignments),
                               check_hard_constraints(assignments).is_valid,
                               check_hard_constraints(assignments).violations))
  /\ assignments' = original_assignments
  /\ UNCHANGED << curriculums, rooms, teachers, course_base_info, periods, preferences,
                  course_sections, ipc, raised, gvars, cvars, rvars, bvars, dpc, heuristic,
                  grvars, dtvars, original_assignments, lvars, gavars, pvars >>

(***************************************************************************)
(* SpecEvaluate: instances with preferences, an assignment map of the      *)
(* instance's own, then _evaluate_solution on a map that assigns every     *)
(* section, as _construct_solution builds it.                              *)
(***************************************************************************)
InitEvaluate ==
  /\ EmptyInstance /\ ipc = "reg" /\ raised = None /\ SolversIdle
  /\ GraphIdle /\ ColorIdle

\* The maps that give every section a period, a room and a teacher.
ConstructedMaps ==
  [ DOMAIN course_sections ->
      [ period : periods, room_id : DOMAIN rooms, teacher_id : DOMAIN teachers ] ]

NextEvaluate ==
  \/ /\ ipc = "reg"
     /\ Len(curriculums) < EMaxCurriculums
     /\ \E cs \in { {"A"}, {"A", "B"} } :
          \E new_order \in Perms(cs \ course_names_registered) :
            add_curriculum(CurriculumNames[_next_curriculum_id], 1, cs, new_order)
  \/ /\ ipc = "reg"
     /\ Len(rooms) < EMaxRooms
     /\ \E i \in KRoomInputs :
          add_room(RoomNames[_next_room_id], i.capacity, i.available_periods)
  \/ /\ ipc = "reg"
     /\ Len(teachers) < EMaxTeachers
     /\ \E i \in KTeacherInputs :
          add_teacher(TeacherNames[_next_teacher_id], i.course_names, i.available_periods)
  \/ /\ ipc = "reg"
     /\ create_course_sections
  \/ /\ ipc = "ready" /\ epc = "idle"
     /\ Len(preferences) < EMaxPreferences
     /\ \E c \in Courses : \E p \in periods : \E v \in 1..EMaxValue :
          add_preference(c, Some(p), Some(RoomNames[1]), Some(TeacherNames[1]), v)
  \/ /\ ipc = "ready" /\ epc = "idle"
     /\ assignments = << >>
     /\ \E s \in DOMAIN course_sections : \E p \in periods :
          \E r \in DOMAIN rooms : \E t \in DOMAIN teachers :
            assign_section(s, p, r, t)
  \/ /\ ipc = "ready"
     /\ rooms # << >> /\ teachers # << >>
     /\ \E A \in ConstructedMaps : call_evaluate_solution(A)
  \/ /\ epc = "entered"
     /\ \E o \in Perms(DOMAIN assignments) : call_repair_assignments("grasp", o)
  \/ /\ epc = "entered" /\ repair_step
  \/ /\ epc = "entered" /\ repair_pass_end
  \/ evaluate_solution_return

SpecEvaluate == InitEvaluate /\ [][NextEvaluate]_vars

evaluate_solution_returned == epc = "done" /\ ret # None /\ ret[1].fn = "_evaluate_solution"

\* C12: every GRASPSolution produced by _evaluate_solution has cost equal to
\* the negated objective of its (repaired) assignments when they are feasible,
\* and to the negated objective plus 1000 times the number of violations when
\* they are still infeasible; the instance's own map is back in place.
C12_CostIsNegatedObjective ==
  evaluate_solution_returned =>
    LET s == ret[1]
    IN /\ s.is_feasible = check_hard_constraints(s.assignments).is_valid
       /\ s.cost = IF s.is_feasible
                   THEN 0 - calculate_objective(s.assignments)
                   ELSE 0 - calculate_objective(s.assignments)
                          + 1000 * Cardinality(s.violations)

(***************************************************************************)
(* GeneticAlgorithmTimetabling.solve with enable_local_search = False:     *)
(* experimental.py, lines 356-452 (the population and the generation       *)
(* loop).  An Assignment is an object: a dict holds its address in heap,   *)
(* dict.copy() copies the addresses.                                       *)
(***************************************************************************)
\* The values an individual holds: section id -> Assignment fields.
values_in(h, ind) == [ s \in DOMAIN ind.assignments |-> h[ind.assignments[s]] ]
values(ind) == values_in(heap, ind)

\* GAIndividual(assignments): lines 316-322, the defaults of the other fields.
GAIndividual(dict) ==
  [ assignments |-> dict, fitness |-> 0, is_feasible |-> FALSE, violations |-> {} ]

\* _evaluate_individual: lines 800-819, with the heap h.
_evaluate_individual(h, ind) ==
  LET A == values_in(h, ind)
      chk == check_hard_constraints(A)
  IN [ assignments |-> ind.assignments,
       fitness |-> IF chk.is_valid THEN 0 - calculate_objective(A)
                   ELSE 0 - calculate_objective(A) + 1000 * Cardinality(chk.violations),
       is_feasible |-> chk.is_valid,
       violations |-> chk.violations ]

\* The triple _generate_random_solution gives a section (lines 748-788): a
\* triple the shuffled loops accept, or else three random choices.
generated_triples(section_id, A) ==
  IF random_feasible(section_id, A) # {} THEN random_feasible(section_id, A)
  ELSE random_any(section_id)

\* _generate_random_solution: lines 736-798, the maps it can return once the
\* sections before section_id have the assignments A.
RECURSIVE _generate_random_solution(_, _)
_generate_random_solution(section_id, A) ==
  IF section_id > Len(course_sections) THEN { A }
  ELSE UNION { _generate_random_solution(section_id + 1,
                 [ s \in DOMAIN A \cup { section_id } |->
                     IF s = section_id
                     THEN [ period |-> c[1], room_id |-> c[2], teacher_id |-> c[3] ]
                     ELSE A[s] ]) :
               c \in generated_triples(section_id, A) }

\* The new Assignment objects of the maps sols[1], sols[2], ..., in heap order.
RECURSIVE allocated(_, _)
allocated(sols, i) ==
  IF i > Len(sols) THEN << >>
  ELSE [ s \in 1..Len(course_sections) |-> sols[i][s] ] \o allocated(sols, i + 1)

\* The dict of the i-th map allocated above a heap of size base.
dict_at(base, i) ==
  [ s \in 1..Len(course_sections) |-> base + (i - 1) * Len(course_sections) + s ]

\* min(population, key=lambda x: x.fitness): the first of the smallest.
min_by_fitness(seq) ==
  seq[CHOOSE i \in DOMAIN seq :
        \A j \in DOMAIN seq : /\ seq[i].fitness <= seq[j].fitness
                              /\ j < i => seq[j].fitness > seq[i].fitness]

\* population.sort(key=lambda x: x.fitness): a stable sort.
insert_by_fitness(seq, x) ==
  LET k == Cardinality({ i \in DOMAIN seq : seq[i].fitness <= x.fitness })
  IN SubSeq(seq, 1, k) \o << x >> \o SubSeq(seq, k + 1, Len(seq))

RECURSIVE sort_by_fitness(_)
sort_by_fitness(seq) ==
  IF seq = << >> THEN << >>
  ELSE insert_by_fitness(sort_by_fitness(SubSeq(seq, 1, Len(seq) - 1)), seq[Len(seq)])

\* solve() up to the for loop (lines 364-376): the initial population is
\* generated and evaluated, the best of it kept.
call_ga_solve ==
  /\ gapc = "idle"
  /\ ret' = None
  /\ IF _generate_random_solution(1, << >>) = {}
     THEN /\ raised' = Some("IndexError")
          /\ gapc' = "raised"
          /\ UNCHANGED << heap, population, new_population, best_individual, generation,
                          no_improvement_count >>
     ELSE \E sols \in [ 1..population_size -> _generate_random_solution(1, << >>) ] :
            LET h == heap \o allocated(sols, 1)
                pop == [ i \in 1..population_size |->
                           _evaluate_individual(h, GAIndividual(dict_at(Len(heap), i))) ]
            IN /\ heap' = h
               /\ population' = pop
               /\ best_individual' = Some(min_by_fitness(pop))
               /\ new_population' = << >>
               /\ generation' = 0
               /\ no_improvement_count' = 0
               /\ gapc' = "generation"
               /\ raised' = None
  /\ UNCHANGED << ivars, ipc, gvars, cvars, rvars, bvars, dpc, heuristic, grvars,
                  dtvars, evars, lvars, pvars >>

\* The top of "for generation in range(self.generations)" and the elitism of
\* lines 382-386: a copy of the best individual's dict, evaluated again.
ga_elitism ==
  /\ gapc = "generation"
  /\ IF generation < generations
     THEN /\ new_population' =
               << _evaluate_individual(heap, GAIndividual(best_individual[1].assignments)) >>
          /\ gapc' = "breed"
     ELSE /\ gapc' = "done"
          /\ UNCHANGED new_population
  /\ UNCHANGED << ivars, ipc, raised, ret, gvars, cvars, rvars, bvars, dpc, heuristic, grvars,
                  dtvars, evars, lvars, pvars, heap, population, best_individual, generation,
                  no_improvement_count >>

\* _tournament_selection (lines 821-824): the indices min() can return for
\* some sample of tournament_size individuals in some order.
_tournament_selection ==
  { i \in DOMAIN population :
      \E T \in SUBSET (DOMAIN population) :
        /\ Cardinality(T) = tournament_size
        /\ i \in T
        /\ \A j \in T : population[i].fitness <= population[j].fitness }

\* _crossover (lines 826-845): the pairs of child dicts.
_crossover(parent1_assignments, parent2_assignments) ==
  LET n == Cardinality(DOMAIN parent1_assignments)
  IN IF n < 2
     THEN { << parent1_assignments, parent2_assignments >> }
     ELSE { << [ s \in DOMAIN parent1_assignments |->
                   IF s <= crossover_point THEN parent1_assignments[s]
                   ELSE parent2_assignments[s] ],
               [ s \in DOMAIN parent1_assignments |->
                   IF s <= crossover_point THEN parent2_assignments[s]
                   ELSE parent1_assignments[s] ] >> :
            crossover_point \in 1..(n - 1) }

\* _mutate (lines 847-869): the heaps it can leave, h itself when the draw
\* is not below mutation_rate or no teacher is qualified.
_mutate(h, dict) ==
  { h }
  \cup { [ h EXCEPT ![dict[s]].period = p ] : s \in DOMAIN dict, p \in periods }
  \cup { [ h EXCEPT ![dict[s]].room_id = r ] : s \in DOMAIN dict, r \in DOMAIN rooms }
  \cup UNION { { [ h EXCEPT ![dict[s]].teacher_id = t ] : t \in qualified_teachers(s) } :
               s \in DOMAIN dict }

\* One iteration of "while len(new_population) < self.population_size"
\* (lines 388-418): selection, cross-over or copy, mutation of both children.
ga_breed ==
  /\ gapc = "breed"
  /\ Len(new_population) < population_size
  /\ IF tournament_size > Len(population)
     THEN /\ raised' = Some("ValueError")
          /\ gapc' = "raised"
          /\ UNCHANGED << heap, new_population >>
     ELSE /\ \E p1 \in _tournament_selection : \E p2 \in _tournament_selection :
               \E children \in _crossover(population[p1].assignments, population[p2].assignments)
                                 \cup { << population[p1].assignments,
                                           population[p2].assignments >> } :
                 \E h1 \in _mutate(heap, children[1]) : \E h2 \in _mutate(h1, children[2]) :
                   /\ heap' = h2
                   /\ new_population' = new_population
                        \o << GAIndividual(children[1]), GAIndividual(children[2]) >>
          /\ UNCHANGED << raised, gapc >>
  /\ UNCHANGED << ivars, ipc, ret, gvars, cvars, rvars, bvars, dpc, heuristic, grvars,
                  dtvars, evars, lvars, pvars, population, best_individual, generation,
                  no_improvement_count >>

\* The end of a generation (lines 420-452): truncation, sort, the new best,
\* the early exit and the diversification.
ga_generation_end ==
  /\ gapc = "breed"
  /\ Len(new_population) >= population_size
  /\ LET sorted_population == sort_by_fitness(SubSeq(new_population, 1, population_size))
         current_best == sorted_population[1]
         improved == current_best.fitness < best_individual[1].fitness
         best == IF improved THEN current_best ELSE best_individual[1]
         count == IF improved THEN 0 ELSE no_improvement_count + 1
         start_idx == Len(sorted_population) \div 2
     IN /\ best_individual' = Some(best)
        /\ IF ~ improved /\ count >= 10 /\ best.is_feasible
           THEN /\ gapc' = "done"
                /\ population' = sorted_population
                /\ no_improvement_count' = count
                /\ UNCHANGED << heap, generation >>
           ELSE /\ gapc' = "generation"
                /\ generation' = generation + 1
                /\ IF count > 10
                   THEN \E sols \in [ 1..(Len(sorted_population) - start_idx) ->
                                        _generate_random_solution(1, << >>) ] :
                          LET h == heap \o allocated(sols, 1)
                          IN /\ heap' = h
                             /\ population' =
                                  [ i \in DOMAIN sorted_population |->
                                      IF i <= start_idx THEN sorted_population[i]
                                      ELSE _evaluate_individual(h,
                                             GAIndividual(dict_at(Len(heap), i - start_idx))) ]
                             /\ no_improvement_count' = 0
                   ELSE /\ population' = sorted_population
                        /\ no_improvement_count' = count
                        /\ UNCHANGED heap
  /\ UNCHANGED << ivars, ipc, raised, ret, gvars, cvars, rvars, bvars, dpc, heuristic, grvars,
                  dtvars, evars, lvars, pvars, new_population >>

(***************************************************************************)
(* SpecGA: instances built through registration and                        *)
(* create_course_sections, then GeneticAlgorithmTimetabling(instance,      *)
(* population_size, generations, tournament_size=tournament_size,          *)
(* enable_local_search=False).solve().                                     *)
(***************************************************************************)
InitGA ==
  /\ EmptyInstance /\ ipc = "reg" /\ raised = None /\ SolversIdle
  /\ GraphIdle /\ ColorIdle

NextGA ==
  \/ /\ ipc = "reg"
     /\ Len(curriculums) < GAMaxCurriculums
     /\ \E cs \in { {"A"}, {"A", "B"} } :
          \E new_order \in Perms(cs \ course_names_registered) :
            add_curriculum(CurriculumNames[_next_curriculum_id], 1, cs, new_order)
  \/ /\ ipc = "reg"
     /\ Len(rooms) < GAMaxRooms
     /\ \E i \in KRoomInputs :
          add_room(RoomNames[_next_room_id], i.capacity, i.available_periods)
  \/ /\ ipc = "reg"
     /\ Len(teachers) < GAMaxTeachers
     /\ \E i \in KTeacherInputs :
          add_teacher(TeacherNames[_next_teacher_id], i.course_names, i.available_periods)
  \/ /\ ipc = "reg"
     /\ create_course_sections
  \/ /\ ipc = "ready"
     /\ call_ga_solve
  \/ ga_elitism
  \/ ga_breed
  \/ ga_generation_end

SpecGA == InitGA /\ [][NextGA]_vars

\* C13: in every generation the elite placed in the new population has the
\* values of the best individual of the previous generation, and cross-over
\* and mutation applied to a child change neither the values held by the best
\* individual nor those of any other individual: no step of the while loop
\* changes what the best individual, the elite, the individuals of the
\* population and the children made earlier hold.
C13_ElitismAndNoSharedMutation ==
  [][ (gapc = "breed" /\ gapc' = "breed" /\ new_population' # new_population) =>
        /\ values_in(heap', best_individual[1]) = values_in(heap, best_individual[1])
        /\ values_in(heap', new_population[1]) = values_in(heap, best_individual[1])
        /\ \A i \in DOMAIN population :
             values_in(heap', population[i]) = values_in(heap, population[i])
        /\ \A i \in DOMAIN new_population :
             values_in(heap', new_population[i]) = values_in(heap, new_population[i]) ]_vars

(***************************************************************************)
(* SpecRegister: the registration calls of TimetablingInstance in any      *)
(* order and with names the caller chooses, valid or not.                  *)
(***************************************************************************)
InitRegister ==
  /\ EmptyInstance /\ ipc = "reg" /\ raised = None /\ SolversIdle
  /\ GraphIdle /\ ColorIdle

\* The names callers pass: the first RegMaxCurriculums, RegMaxRooms and
\* RegMaxTeachers names of each kind.
RegCurriculumNames == { CurriculumNames[i] : i \in 1..RegMaxCurriculums }
RegRoomNames == { RoomNames[i] : i \in 1..RegMaxRooms }
RegTeacherNames == { TeacherNames[i] : i \in 1..RegMaxTeachers }

\* The curriculum_names arguments of add_course: lists without repetition.
RegCurriculumNameLists == UNION { Perms(S) : S \in SUBSET RegCurriculumNames }

\* Some name of the list is not the name of a registered curriculum.
names_unknown_curriculum(curriculum_names) ==
  \E i \in DOMAIN curriculum_names : _find_curriculum_by_name(curriculum_names[i]) = 0

NextRegister ==
  \/ /\ ipc \in { "reg", "ready" }
     /\ Len(curriculums) < RegMaxCurriculums
     /\ \E n \in RegCurriculumNames : \E cs \in { {"A"}, {"A", "B"} } :
          \E new_order \in Perms(cs \ course_names_registered) :
            add_curriculum(n, 1, cs, new_order)
  \/ /\ ipc \in { "reg", "ready" }
     /\ Len(rooms) < RegMaxRooms
     /\ \E n \in RegRoomNames : add_room(n, 1, {1})
  \/ /\ ipc \in { "reg", "ready" }
     /\ Len(teachers) < RegMaxTeachers
     /\ \E n \in RegTeacherNames : add_teacher(n, {"A"}, {1})
  \/ /\ ipc \in { "reg", "ready" }
     /\ \E name \in Courses : \E curriculum_names \in RegCurriculumNameLists :
          add_course(name, curriculum_names)
  \/ /\ ipc \in { "reg", "ready" }
     /\ Len(preferences) < RegMaxPreferences
     /\ \E c \in Courses : \E r \in { None } \cup { Some(n) : n \in RegRoomNames } :
          \E t \in { None, Some(TeacherNames[1]) } :
            add_preference(c, None, r, t, 1)
  \/ /\ ipc \in { "reg", "ready" }
     /\ create_course_sections
  \/ /\ ipc = "ready"
     /\ assignments = << >>
     /\ course_sections # << >> /\ teachers # << >>
     /\ assign_section(1, 1, 1, 1)

SpecRegister == InitRegister /\ [][NextRegister]_vars

\* C14: in every reachable instance state, add_course(name, curriculum_names)
\* raises a validation error whenever some name in curriculum_names is not a
\* registered curriculum, also when a course called name is already registered.
C14_AddCourseValidatesCurriculums ==
  [][ \A name \in Courses : \A curriculum_names \in RegCurriculumNameLists :
        (names_unknown_curriculum(curriculum_names) /\ add_course(name, curriculum_names))
          => raised' = Some("ValueError") ]_vars

\* No two elements of a registry have the same name.
names_unique(seq) ==
  \A i, j \in DOMAIN seq : i # j => seq[i].name # seq[j].name

\* C15: after any sequence of add_curriculum, add_room, add_teacher and
\* add_course calls, no two registered curriculums, no two rooms, no two
\* teachers and no two courses have the same name.
C15_NamesUniquePerKind ==
  /\ names_unique(curriculums)
  /\ names_unique(rooms)
  /\ names_unique(teachers)
  /\ names_unique(course_base_info)

\* C16: whenever add_course (unknown curriculum), add_preference (unknown
\* course, room or teacher) or create_course_sections (no rooms) raises a
\* validation error, the instance is exactly as before the call: courses,
\* curriculums, rooms, teachers, periods, preferences, sections, assignments
\* and, with the lengths of the registries, the id counters are unchanged.
C16_ValidationErrorLeavesInstance ==
  [][ raised' = Some("ValueError") =>
        /\ UNCHANGED << curriculums, rooms, teachers, course_base_info, periods, preferences,
                        course_sections, assignments >>
        /\ UNCHANGED << _next_curriculum_id, _next_room_id, _next_teacher_id,
                        _next_section_id >> ]_vars

\* A call has raised on an instance that has sections, a preference and an
\* assignment, and that knows one course only.
C16_Witness ==
  /\ raised = Some("ValueError")
  /\ course_sections # << >> /\ preferences # << >> /\ assignments # << >>
  /\ course_names_registered = { "A" }

(***************************************************************************)
(* SpecBruteAssigned: as SpecBrute, on instances that may hold an          *)
(* assignment of their own when solve_timetabling_bruteforce is called.    *)
(***************************************************************************)
NextBruteAssigned ==
  \/ NextBrute
  \/ /\ ipc = "ready" /\ bpc = "idle"
     /\ Len(course_sections) <= BMaxSections
     /\ assignments = << >>
     /\ course_sections # << >> /\ teachers # << >>
     /\ assign_section(1, 1, 1, 1)

SpecBruteAssigned == InitBrute /\ [][NextBruteAssigned]_vars

\* C18: whenever solve_timetabling_bruteforce does not find a complete
\* solution, because the time limit was observed exceeded at a recursion
\* entry or because the search space was exhausted, it returns found = false
\* with an empty assignment map; it never returns found = true after the time
\* limit was observed exceeded; and no step of the call changes
\* instance.assignments.
C18_BruteforceFailureReturnsNothing ==
  /\ [](bruteforce_returned =>
          /\ ~ ret[1].found => ret[1].assignments = << >>
          /\ timed_out => ~ ret[1].found
          /\ ~ ret[1].found <=>
               (timed_out \/ ~ \E A \in CompleteAssignments :
                                   /\ \A s \in DOMAIN A : A[s].teacher_id \in qualified_or_all(s)
                                   /\ I3(A) /\ I4(A) /\ I5(A) /\ I6(A) /\ I7(A)))
  /\ [][(bpc # "idle" \/ bpc' # "idle") => assignments' = assignments]_vars

\* The call has returned without a solution after a time-out, a placement
\* having been undone, on an instance with two sections that holds an
\* assignment of its own.
C18_Witness ==
  /\ bruteforce_returned /\ ~ ret[1].found /\ timed_out
  /\ ret[1].assignments = << >>
  /\ assignments # << >>
  /\ Len(course_sections) = 2
  /\ cand_idx > 1

(***************************************************************************)
(* SpecCapacity: one room of capacity CapRoomCapacity, one curriculum of   *)
(* twice as many students taking course A, teachers of any kind, then      *)
(* create_course_sections and solve_timetabling_bruteforce.                *)
(***************************************************************************)
InitCapacity ==
  /\ EmptyInstance /\ ipc = "reg" /\ raised = None /\ SolversIdle
  /\ GraphIdle /\ ColorIdle

NextCapacity ==
  \/ /\ ipc = "reg"
     /\ curriculums = << >>
     /\ add_curriculum(CurriculumNames[1], 2 * CapRoomCapacity, {"A"}, << "A" >>)
  \/ /\ ipc = "reg"
     /\ rooms = << >>
     /\ \E ps \in SUBSET (1..CapMaxPeriod) : add_room(RoomNames[1], CapRoomCapacity, ps)
  \/ /\ ipc = "reg"
     /\ Len(teachers) < CapMaxTeachers
     /\ \E cs \in { {"A"}, {"B"} } : \E ps \in SUBSET (1..CapMaxPeriod) :
          add_teacher(TeacherNames[_next_teacher_id], cs, ps)
  \/ /\ ipc = "reg"
     /\ curriculums # << >>
     /\ create_course_sections
  \/ /\ ipc = "ready"
     /\ call_bruteforce
  \/ dfs_enter
  \/ dfs_loop
  \/ dfs_returned

SpecCapacity == InitCapacity /\ [][NextCapacity]_vars

\* The sections of the instance have been created.
capacity_scenario == ipc = "ready" /\ Len(curriculums) = 1 /\ Len(rooms) = 1

\* The periods in which the room and a teacher the solver may use are free.
periods_with_candidate(sid) ==
  { p \in rooms[1].availability :
      \E t \in qualified_or_all(sid) : p \in teachers[t].availability }

\* C17 as stated: for an instance whose only room has capacity 50 and whose
\* only curriculum has 100 students taking course A, create_course_sections
\* yields exactly one section of course A with 100 students, that section
\* has no candidate triple satisfying I4, and solve_timetabling_bruteforce
\* returns found = false.
C17_OneSectionOverCapacity ==
  capacity_scenario =>
    /\ Len(course_sections) = 1
    /\ course_sections[1].course_name = "A"
    /\ total_students(course_sections[1]) = 2 * CapRoomCapacity
    /\ \A r \in DOMAIN rooms : rooms[r].capacity < total_students(course_sections[1])
    /\ bruteforce_returned => ~ ret[1].found

\* C17 as the code has it: create_course_sections splits course A into
\* exactly two sections of 50 students of the one curriculum, every
\* candidate triple of either section satisfies I4, and
\* solve_timetabling_bruteforce, unless it observes a time-out, returns
\* found = true exactly when the room and a teacher the solver may use are
\* free together in two periods.
C17_TwoSectionsWithinCapacity ==
  capacity_scenario =>
    /\ Len(course_sections) = 2
    /\ \A s \in DOMAIN course_sections :
         /\ course_sections[s].course_name = "A"
         /\ course_sections[s].curriculum_students = (1 :> CapRoomCapacity)
         /\ total_students(course_sections[s]) = CapRoomCapacity
         /\ \A r \in DOMAIN rooms : rooms[r].capacity >= total_students(course_sections[s])
    /\ (bruteforce_returned /\ ~ timed_out) =>
         (ret[1].found <=> Cardinality(periods_with_candidate(1)) >= 2)

\* The two sections were placed in the one room in two periods.
C17_Witness ==
  /\ capacity_scenario
  /\ bruteforce_returned /\ ret[1].found
  /\ DOMAIN ret[1].assignments = { 1, 2 }
  /\ ret[1].assignments[1].room_id = ret[1].assignments[2].room_id
  /\ ret[1].assignments[1].period # ret[1].assignments[2].period
  /\ rooms[1].capacity = CapRoomCapacity
  /\ curriculums[1].num_students = 2 * CapRoomCapacity

(***************************************************************************)
(* SpecBipartite: rlf_coloring on the complete bipartite graphs K_{m,n},   *)
(* 1 <= m, n <= MaxSide, with the sides 1..m and m+1..m+n.                 *)
(***************************************************************************)
CompleteBipartite(m, n) ==
  GraphInstance(1..(m + n), { << u, v >> : u \in 1..m, v \in (m + 1)..(m + n) })

InitBipartite ==
  /\ \E m \in 1..MaxSide : \E n \in 1..MaxSide :
       LET g == CompleteBipartite(m, n)
       IN /\ vertices = g.vertices
          /\ edges = g.edges
          /\ adj_list = g.adj_list
  /\ ColorIdle
  /\ EmptyInstance /\ ipc = "idle" /\ raised = None /\ SolversIdle

NextBipartite ==
  \/ call_rlf
  \/ rlf_step
  \/ rlf_next_class

SpecBipartite == InitBipartite /\ [][NextBipartite]_vars

\* The two sides of the bipartition and the class of a colour.
side_of(v) == vertices \ get_neighbors(v)
color_class(c) == { v \in DOMAIN vertex_color : vertex_color[v] = c }

\* C19: for every complete bipartite graph K_{m,n} with m, n >= 1 and every
\* resolution of the random tie-breaks, rlf_coloring uses exactly 2 colours
\* and each colour class is exactly one side of the bipartition.
C19_RlfTwoColoursOnBipartite ==
  (alg = "rlf" /\ cpc = "done") =>
    /\ DOMAIN vertex_color = vertices
    /\ { vertex_color[v] : v \in vertices } = { 1, 2 }
    /\ \A v \in vertices : color_class(vertex_color[v]) = side_of(v)

\* RLF has coloured K_{3,3}, the first vertex chosen being of the second side.
C19_Witness ==
  /\ alg = "rlf" /\ cpc = "done"
  /\ Cardinality(vertices) = 6 /\ Cardinality(edges) = 9
  /\ vertex_color[1] = 2
  /\ color_class(1) = side_of(6)

(***************************************************************************)
(* The labs TimetablingInstance: labs/data_structures.py, lines 6-65.  A   *)
(* dict keyed by (course, period) is a function on the keys it holds.      *)
(***************************************************************************)
\* __post_init__ (lines 32-46): the default tables of an instance created
\* with n_courses courses and n_timeslot periods.
default_table(n_courses, n_timeslot, value) ==
  [ key \in (1..n_courses) \X (1..n_timeslot) |-> value ]

\* set_preassignment storing the flag whatever the availability says.
set_preassignment_unchecked(course, period, assigned) ==
  /\ preassignment' = (<< course, period >> :> (IF assigned THEN 1 ELSE 0)) @@ preassignment
  /\ lcall' = Some([ fn |-> "set_preassignment", course |-> course, period |-> period,
                     flag |-> assigned ])
  /\ UNCHANGED << availability, gvars, cvars, ivars, ipc, raised, ret, rvars, bvars, dpc,
                  heuristic, grvars, dtvars, evars, gavars, pvars >>

\* set_preassignment(course, period, assigned): lines 56-59.
set_preassignment(course, period, assigned) ==
  /\ LET is_available == /\ << course, period >> \in DOMAIN availability
                         /\ availability[<< course, period >>] = 1
     IN preassignment' =
          (<< course, period >> :> (IF assigned /\ is_available THEN 1 ELSE 0)) @@ preassignment
  /\ lcall' = Some([ fn |-> "set_preassignment", course |-> course, period |-> period,
                     flag |-> assigned ])
  /\ UNCHANGED << availability, gvars, cvars, ivars, ipc, raised, ret, rvars, bvars, dpc,
                  heuristic, grvars, dtvars, evars, gavars, pvars >>

\* set_availability(course, period, available): lines 61-65.
set_availability(course, period, available) ==
  /\ availability' = (<< course, period >> :> (IF available THEN 1 ELSE 0)) @@ availability
  /\ preassignment' = IF ~ available
                      THEN (<< course, period >> :> 0) @@ preassignment
                      ELSE preassignment
  /\ lcall' = Some([ fn |-> "set_availability", course |-> course, period |-> period,
                     flag |-> available ])
  /\ UNCHANGED << gvars, cvars, ivars, ipc, raised, ret, rvars, bvars, dpc,
                  heuristic, grvars, dtvars, evars, gavars, pvars >>

(***************************************************************************)
(* SpecLabs: an instance TimetablingInstance(n_courses, n_timeslot=...)    *)
(* with the default tables, then the two setters on courses known and      *)
(* unknown to it.                                                          *)
(***************************************************************************)
InitLabs ==
  /\ \E n_courses \in 1..LMaxCourses : \E n_timeslot \in 1..LMaxTimeslot :
       /\ availability = default_table(n_courses, n_timeslot, 1)
       /\ preassignment = default_table(n_courses, n_timeslot, 0)
  /\ lcall = None
  /\ EmptyInstance /\ ipc = "idle" /\ raised = None /\ CallsIdle
  /\ GraphIdle /\ ColorIdle

NextLabs ==
  \/ \E course \in 1..(LMaxCourses + 1) : \E period \in 1..LMaxTimeslot :
       \E assigned \in BOOLEAN : set_preassignment(course, period, assigned)
  \/ \E course \in 1..(LMaxCourses + 1) : \E period \in 1..LMaxTimeslot :
       \E available \in BOOLEAN : set_availability(course, period, available)

SpecLabs == InitLabs /\ [][NextLabs]_vars

\* The entries of a table other than the one of key are what they were.
others_kept(before, after, key) ==
  /\ DOMAIN before \subseteq DOMAIN after
  /\ \A k \in DOMAIN after \ { key } : k \in DOMAIN before /\ after[k] = before[k]

\* C20: for a labs TimetablingInstance created with the default tables, after
\* any sequence of set_availability and set_preassignment calls,
\* preassignment[(course, period)] = 1 implies availability[(course, period)]
\* = 1, and a set_preassignment call changes no entry other than its own
\* (course, period).
C20_PreassignedImpliesAvailable ==
  /\ [](\A key \in DOMAIN preassignment :
          preassignment[key] = 1 => (key \in DOMAIN availability /\ availability[key] = 1))
  /\ [][ (lcall' # None /\ lcall'[1].fn = "set_preassignment") =>
           /\ availability' = availability
           /\ others_kept(preassignment, preassignment',
                          << lcall'[1].course, lcall'[1].period >>) ]_vars

\* A preassignment asked for an unavailable slot was not recorded, another
\* slot being preassigned.
C20_Witness ==
  /\ lcall # None /\ lcall[1].fn = "set_preassignment" /\ lcall[1].flag
  /\ << lcall[1].course, lcall[1].period >> \in DOMAIN availability
  /\ availability[<< lcall[1].course, lcall[1].period >>] = 0
  /\ preassignment[<< lcall[1].course, lcall[1].period >>] = 0
  /\ \E key \in DOMAIN preassignment : preassignment[key] = 1

(***************************************************************************)
(* GraphInstance.add_vertex / add_edge / remove_vertex: graph.py, lines    *)
(* 36-70 (impl = "src", duplicates raise Exception) and                    *)
(* labs/data_structures.py, lines 186-215 (impl = "labs", duplicates are   *)
(* accepted silently).                                                     *)
(***************************************************************************)
\* The adjacency dict with an empty set for a vertex it does not hold yet.
with_vertex(adj, vertex) ==
  IF vertex \in DOMAIN adj THEN adj ELSE (vertex :> {}) @@ adj

add_vertex(impl, vertex) ==
  /\ IF vertex \notin vertices
     THEN /\ vertices' = vertices \cup { vertex }
          /\ adj_list' = (vertex :> {}) @@ adj_list
          /\ raised' = None
     ELSE /\ raised' = IF impl = "src" THEN Some("Exception") ELSE None
          /\ UNCHANGED << vertices, adj_list >>
  /\ UNCHANGED << edges, cvars, ivars, ipc, ret, svars >>

\* add_edge keeping the pair as it was given.
add_edge_as_given(impl, u, v) ==
  LET adj == with_vertex(with_vertex(adj_list, u), v)
  IN /\ vertices' = vertices \cup { u, v }
     /\ IF impl = "labs" \/ << u, v >> \notin edges
        THEN /\ edges' = edges \cup { << u, v >> }
             /\ adj_list' = [ adj EXCEPT ![u] = @ \cup { v }, ![v] = @ \cup { u } ]
             /\ raised' = None
        ELSE /\ adj_list' = adj
             /\ raised' = Some("Exception")
             /\ UNCHANGED edges
     /\ UNCHANGED << cvars, ivars, ipc, ret, svars >>

\* add_edge(u, v): missing endpoints are added first, the pair is stored as
\* (min, max).
add_edge(impl, u, v) ==
  LET adj == with_vertex(with_vertex(adj_list, u), v)
      edge == << Min2(u, v), Max2(u, v) >>
  IN /\ vertices' = vertices \cup { u, v }
     /\ IF impl = "labs" \/ edge \notin edges
        THEN /\ edges' = edges \cup { edge }
             /\ adj_list' = [ adj EXCEPT ![u] = @ \cup { v }, ![v] = @ \cup { u } ]
             /\ raised' = None
        ELSE /\ adj_list' = adj
             /\ raised' = Some("Exception")
             /\ UNCHANGED edges
     /\ UNCHANGED << cvars, ivars, ipc, ret, svars >>

remove_vertex(vertex) ==
  /\ IF vertex \notin vertices
     THEN UNCHANGED << vertices, edges, adj_list >>
     ELSE /\ adj_list' = [ w \in DOMAIN adj_list \ { vertex } |->
                             IF vertex \in DOMAIN adj_list /\ w \in adj_list[vertex]
                             THEN adj_list[w] \ { vertex } ELSE adj_list[w] ]
          /\ edges' = { e \in edges : e[1] # vertex /\ e[2] # vertex }
          /\ vertices' = vertices \ { vertex }
  /\ raised' = None
  /\ UNCHANGED << cvars, ivars, ipc, ret, svars >>

(***************************************************************************)
(* SpecGraph: a graph built from vertex and edge sets over the ids         *)
(* 1..MaxVertexId, then the three operations of either class.              *)
(***************************************************************************)
VertexIds == 1..MaxVertexId

InitGraph ==
  /\ \E V \in SUBSET VertexIds :
       \E E \in SUBSET { p \in V \X V : p[1] < p[2] } :
         LET g == GraphInstance(V, E)
         IN /\ vertices = g.vertices
            /\ edges = g.edges
            /\ adj_list = g.adj_list
  /\ ColorIdle
  /\ EmptyInstance /\ ipc = "idle" /\ raised = None /\ SolversIdle

NextGraph ==
  \/ \E impl \in { "src", "labs" } : \E vertex \in VertexIds : add_vertex(impl, vertex)
  \/ \E impl \in { "src", "labs" } : \E u \in VertexIds : \E v \in VertexIds \ { u } :
       add_edge(impl, u, v)
  \/ \E vertex \in VertexIds : remove_vertex(vertex)

SpecGraph == InitGraph /\ [][NextGraph]_vars

\* C21: after any sequence of add_vertex, add_edge (between distinct
\* vertices) and remove_vertex on a graph built from vertex and edge sets,
\* every stored edge is a pair (u, v) with u < v whose endpoints are both in
\* vertices, v is in the adjacency set of u exactly when the edge
\* (min(u,v), max(u,v)) is stored, and adjacency is symmetric; adding an
\* edge that already exists leaves the edges and the adjacency sets
\* unchanged; and after remove_vertex(x) no edge and no adjacency set
\* mentions x.
C21_GraphConsistent ==
  /\ [](/\ \A e \in edges : e[1] < e[2] /\ e[1] \in vertices /\ e[2] \in vertices
        /\ DOMAIN adj_list = vertices
        /\ \A u \in vertices : \A v \in VertexIds :
             v \in adj_list[u] <=> (u # v /\ << Min2(u, v), Max2(u, v) >> \in edges)
        /\ \A u \in vertices : \A v \in adj_list[u] : v \in vertices /\ u \in adj_list[v])
  /\ [][ \A impl \in { "src", "labs" } : \A u \in VertexIds : \A v \in VertexIds \ { u } :
           (<< Min2(u, v), Max2(u, v) >> \in edges /\ add_edge(impl, u, v)) =>
             (edges' = edges /\ adj_list' = adj_list) ]_vars
  /\ [][ \A x \in VertexIds :
           remove_vertex(x) =>
             /\ x \notin vertices' /\ x \notin DOMAIN adj_list'
             /\ \A e \in edges' : e[1] # x /\ e[2] # x
             /\ \A w \in DOMAIN adj_list' : x \notin adj_list'[w] ]_vars

\* An edge added a second time was refused on a graph of four vertices, one
\* of them without the neighbours it lost with a removed vertex.
C21_Witness ==
  /\ raised = Some("Exception")
  /\ Cardinality(vertices) = 4 /\ Cardinality(edges) >= 3
  /\ \E u \in vertices : adj_list[u] = {}


\* ---------------------------------------------------------------------------
\* GeneticAlgorithmTimetabling.solve: the fitness fields read by the
\* tournament and by the sort
\* ---------------------------------------------------------------------------

fields_current(ind) ==
  /\ ind.fitness = _evaluate_individual(heap, ind).fitness
  /\ ind.is_feasible = _evaluate_individual(heap, ind).is_feasible

\* C22: at every tournament selection (a breeding round is about to draw its
\* parents from the population) and at every sort of the new population by
\* fitness, each individual's fitness field is the negated objective of the
\* assignments it holds plus 1000 per violation when infeasible, and its
\* is_feasible field is the feasibility of those assignments; children made by
\* cross-over and mutation without hill-climbing included.
C22_FitnessFieldsCurrent ==
  gapc = "breed" =>
    IF Len(new_population) < population_size
    THEN \A i \in DOMAIN population : fields_current(population[i])
    ELSE \A i \in 1..population_size : fields_current(new_population[i])


\* ---------------------------------------------------------------------------
\* GeneticAlgorithmTimetabling.solve: the generation loop and its stagnation
\* handling
\* ---------------------------------------------------------------------------

\* "current_best.fitness < self.best_individual.fitness" is false for the
\* new population about to be truncated and sorted (lines 421-428).
no_improvement ==
  ~ (sort_by_fitness(SubSeq(new_population, 1, population_size))[1].fitness
       < best_individual[1].fitness)

\* The worst half of the population is made of individuals allocated in this
\* step, each carrying its own evaluation.
worst_half_fresh ==
  \A i \in (Len(population') \div 2 + 1)..Len(population') :
    /\ \A s \in DOMAIN population'[i].assignments :
         population'[i].assignments[s] > Len(heap)
    /\ population'[i] = _evaluate_individual(heap', population'[i])

\* C23: the generation loop runs at most max_generations times, and the
\* generation that brings the count of consecutive generations without
\* improvement of the best fitness to 10 ends the run when the best individual
\* is feasible, and otherwise replaces the worst half of the population with
\* fresh random individuals and restarts the count from 0.
C23_StagnationAtTen ==
  /\ [](generation <= generations)
  /\ [][ (ga_generation_end /\ no_improvement /\ no_improvement_count = 9)
           => IF best_individual[1].is_feasible
              THEN gapc' = "done"
              ELSE no_improvement_count' = 0 /\ worst_half_fresh ]_vars


(***************************************************************************)
(* SpecRcl: GRASPTimetabling on instances with one section and preferences *)
(* on its periods: the constructor with every alpha in [0, 1] in steps of  *)
(* 1 / AlphaDen, _select_from_rcl called on candidate lists of its own,    *)
(* and solve() up to the end of the first _construct_solution.             *)
(***************************************************************************)
\* GRASPTimetabling(instance, alpha = a / AlphaDen) (lines 31-46).
grasp_init(a) ==
  /\ gpc = "idle"
  /\ alpha' = a
  /\ UNCHANGED << ivars, ipc, raised, ret, gvars, cvars, rvars, bvars, dpc, heuristic, grvars,
                  dtvars, evars, lvars, gavars, candidate_list, selected, hcvars,
                  glsvars >>

\* _select_from_rcl(candidates) (lines 232-266): the list is sorted in place,
\* selected is drawn from the restricted list and returned as an Assignment
\* with section_id 0.
call_select_from_rcl(candidates) ==
  /\ gpc = "idle"
  /\ candidates # << >>
  /\ candidate_list' = sort_by_cost(candidates)
  /\ \E c \in _select_from_rcl(candidates, alpha) :
       /\ selected' = Some(c)
       /\ ret' = Some([ fn |-> "_select_from_rcl", section_id |-> 0, period |-> c[1],
                        room_id |-> c[2], teacher_id |-> c[3] ])
  /\ raised' = None
  /\ UNCHANGED << ivars, ipc, gvars, cvars, rvars, bvars, dpc, heuristic, grvars,
                  dtvars, evars, lvars, gavars, alpha, hcvars, glsvars >>

PreferenceValues == { 1, 10 }

CandidateLists ==
  UNION { [ 1..n -> periods \X (DOMAIN rooms) \X (DOMAIN teachers) \X ((0 - MaxCost)..MaxCost) ] :
            n \in 1..MaxCandidates }

InitRcl ==
  /\ EmptyInstance /\ ipc = "reg" /\ raised = None /\ SolversIdle
  /\ GraphIdle /\ ColorIdle

NextRcl ==
  \/ /\ ipc = "reg"
     /\ curriculums = << >>
     /\ add_curriculum(CurriculumNames[_next_curriculum_id], 1, {"A"}, << "A" >>)
  \/ /\ ipc = "reg"
     /\ rooms = << >>
     /\ \E ps \in { {1}, {1, 2} } : add_room(RoomNames[_next_room_id], 1, ps)
  \/ /\ ipc = "reg"
     /\ teachers = << >>
     /\ \E ps \in { {}, {1, 2} } : add_teacher(TeacherNames[_next_teacher_id], {"A"}, ps)
  \/ /\ ipc = "reg"
     /\ curriculums # << >> /\ rooms # << >> /\ teachers # << >>
     /\ create_course_sections
  \/ /\ ipc = "ready" /\ gpc = "idle" /\ selected = None
     /\ Len(preferences) < RclMaxPreferences
     /\ \E p \in periods : \E v \in PreferenceValues :
          add_preference("A", Some(p), Some(RoomNames[1]), Some(TeacherNames[1]), v)
  \/ /\ ipc = "ready" /\ selected = None
     /\ \E a \in 0..AlphaDen : grasp_init(a)
  \/ /\ ipc = "ready" /\ selected = None
     /\ \E candidates \in CandidateLists : call_select_from_rcl(candidates)
  \/ /\ ipc = "ready" /\ selected = None
     /\ \E shuffled \in Perms(DOMAIN course_sections) : call_grasp_solve(shuffled)
  \/ grasp_construct_step
  \/ grasp_constructed

SpecRcl == InitRcl /\ [][NextRcl]_vars

\* What _select_from_rcl promises for the list it was called with.
rcl_contract ==
  selected # None =>
    LET min_cost == candidate_list[1][4]
        max_cost == candidate_list[Len(candidate_list)][4]
    IN /\ \A i \in DOMAIN candidate_list :
            min_cost <= candidate_list[i][4] /\ candidate_list[i][4] <= max_cost
       /\ selected[1][4] * AlphaDen <= min_cost * AlphaDen + alpha * (max_cost - min_cost)
       /\ restricted_candidate_list(candidate_list, alpha) # << >>
       /\ alpha = 0 => selected[1][4] = min_cost
       /\ alpha = AlphaDen => _select_from_rcl(candidate_list, alpha) = Range(candidate_list)

\* The section _construct_solution is about to place has candidates.
selecting == gpc = "construct" /\ gorder # << >>
               /\ grasp_candidates(Head(gorder), temp_assignments) # {}

\* C24: for every non-empty candidate list and every alpha in [0, 1] the
\* candidate _select_from_rcl returns costs at most
\* cost_min + alpha * (cost_max - cost_min), the restricted list is never
\* empty, with alpha = 0 the returned candidate has minimum cost, with
\* alpha = 1 every candidate can be returned; and when _construct_solution
\* places a section that has candidates, it places one selected this way, so
\* that with alpha = 0 and preferences (A,1,R1,T1,10.0), (A,2,R1,T1,1.0) the
\* section goes to period 1.
C24_RclSelection ==
  /\ [] rcl_contract
  /\ [][ (selecting /\ grasp_construct_step) =>
           LET section_id == Head(gorder)
               costs == { c[4] : c \in _generate_candidates(section_id, temp_assignments) }
               candidate == temp_assignments'[section_id]
               cost == _evaluate_candidate(section_id, candidate.period, candidate.room_id,
                                           candidate.teacher_id)
           IN /\ raised' = None
              /\ section_id \in DOMAIN temp_assignments'
              /\ \A min_cost \in costs : \A max_cost \in costs :
                   ((\A c \in costs : min_cost <= c /\ c <= max_cost) =>
                      cost * AlphaDen <= min_cost * AlphaDen + alpha * (max_cost - min_cost))
         ]_vars


(***************************************************************************)
(* GeneticAlgorithmTimetabling._local_search: experimental.py 594-725.     *)
(* The individual's dict holds heap addresses; the moves are written into  *)
(* the Assignment objects in place.                                        *)
(***************************************************************************)
\* _get_conflicting_section_ids (lines 470-535).
_get_conflicting_section_ids(A) ==
  { s \in DOMAIN A :
      \/ course_sections[s].course_name \notin teachers[A[s].teacher_id].course_names
      \/ A[s].period \notin teachers[A[s].teacher_id].availability
      \/ A[s].period \notin rooms[A[s].room_id].availability
      \/ rooms[A[s].room_id].capacity < total_students(course_sections[s])
      \/ \E o \in DOMAIN A \ { s } :
           /\ A[o].period = A[s].period
           /\ \/ A[o].teacher_id = A[s].teacher_id
              \/ A[o].room_id = A[s].room_id
              \/ curriculum_ids(course_sections[o]) \cap curriculum_ids(course_sections[s]) # {} }

\* (assignment.period, assignment.room_id, assignment.teacher_id)
assignment_data(a) == << a.period, a.room_id, a.teacher_id >>

with_data(h, address, data) ==
  [ h EXCEPT ![address] = [ period |-> data[1], room_id |-> data[2], teacher_id |-> data[3] ] ]

\* Lines 602-622: nothing is done for an empty dict; otherwise the individual
\* is evaluated and its dict becomes the instance's.
call_local_search(A) ==
  /\ lspc = "idle"
  /\ LET h == heap \o allocated(<< A >>, 1)
         ind == GAIndividual(dict_at(Len(heap), 1))
     IN /\ heap' = h
        /\ IF A = << >>
           THEN /\ individual' = Some(ind)
                /\ lspc' = "done"
                /\ UNCHANGED current_fitness
           ELSE /\ individual' = Some(_evaluate_individual(h, ind))
                /\ lspc' = "step"
                /\ current_fitness' = _evaluate_individual(h, ind).fitness
  /\ step' = 0
  /\ raised' = None
  /\ ret' = None
  /\ UNCHANGED << ivars, ipc, gvars, cvars, rvars, bvars, dpc, heuristic, grvars,
                  dtvars, evars, lvars, population, new_population, best_individual, gapc,
                  generation, no_improvement_count, rclvars, glsvars, ls_section_id,
                  original_assignment_data, attempt, best_move_fitness, best_move_data,
                  found_improvement >>

\* The top of "for step in range(max_steps)" (lines 624-656): the loop is
\* over and the individual is evaluated once more (lines 722-725), or a
\* conflicting section is drawn; without conflicts line 639 reads
\* self.instance.preferred_periods, which TimetablingInstance does not define,
\* and the instance keeps the individual's dict as its assignments.
ls_step_begin ==
  /\ lspc = "step"
  /\ LET conflicting == _get_conflicting_section_ids(values(individual[1]))
     IN IF step >= max_steps
        THEN /\ lspc' = "done"
             /\ individual' = Some(_evaluate_individual(heap, individual[1]))
             /\ UNCHANGED << assignments, raised, step, ls_section_id, original_assignment_data,
                             attempt, best_move_fitness, best_move_data, found_improvement >>
        ELSE IF conflicting = {}
        THEN /\ lspc' = "raised"
             /\ raised' = Some("AttributeError")
             /\ assignments' = values(individual[1])
             /\ UNCHANGED << individual, step, ls_section_id, original_assignment_data,
                             attempt, best_move_fitness, best_move_data, found_improvement >>
        ELSE \E section_id \in conflicting :
               /\ lspc' = "attempts"
               /\ step' = step + 1
               /\ ls_section_id' = section_id
               /\ original_assignment_data' =
                    assignment_data(heap[individual[1].assignments[section_id]])
               /\ best_move_fitness' = current_fitness
               /\ best_move_data' =
                    assignment_data(heap[individual[1].assignments[section_id]])
               /\ found_improvement' = FALSE
               /\ attempt' = 0
               /\ UNCHANGED << assignments, raised, individual >>
  /\ UNCHANGED << curriculums, rooms, teachers, course_base_info, periods, preferences,
                  course_sections, ipc, ret, gvars, cvars, rvars, bvars, dpc, heuristic, grvars,
                  dtvars, evars, lvars, gavars, rclvars, glsvars, current_fitness >>

\* The moves one pass of "for _ in range(attempts)" can make from the values
\* the Assignment object holds (lines 663-682).
moves_from_current(a, section_id) ==
  { [ a EXCEPT !.period = p ] : p \in periods }
  \cup { [ a EXCEPT !.room_id = r ] : r \in DOMAIN rooms }
  \cup { [ a EXCEPT !.teacher_id = t ] : t \in qualified_teachers(section_id) }
  \cup (IF qualified_teachers(section_id) = {} THEN { a } ELSE {})

\* One pass of the inner loop (lines 661-703): the move is written into the
\* Assignment object and costed; the first strictly better move ends the loop.
ls_attempt ==
  /\ lspc = "attempts"
  /\ LET address == individual[1].assignments[ls_section_id]
     IN \E move \in moves_from_current(heap[address], ls_section_id) :
          LET h == [ heap EXCEPT ![address] = move ]
              cost_move == _evaluate_individual(h, individual[1]).fitness
          IN /\ heap' = h
             /\ attempt' = attempt + 1
             /\ IF cost_move < best_move_fitness
                THEN /\ best_move_fitness' = cost_move
                     /\ best_move_data' = assignment_data(move)
                     /\ found_improvement' = TRUE
                     /\ lspc' = "apply"
                ELSE /\ lspc' = IF attempt + 1 < attempts THEN "attempts" ELSE "apply"
                     /\ UNCHANGED << best_move_fitness, best_move_data, found_improvement >>
  /\ UNCHANGED << ivars, ipc, raised, ret, gvars, cvars, rvars, bvars, dpc, heuristic, grvars,
                  dtvars, evars, lvars, population, new_population, best_individual, gapc,
                  generation, no_improvement_count, rclvars, glsvars, individual, step, ls_section_id,
                  original_assignment_data, current_fitness >>

\* "3. Aplicar o revertir" (lines 705-719).
ls_step_end ==
  /\ lspc = "apply"
  /\ lspc' = "step"
  /\ LET address == individual[1].assignments[ls_section_id]
     IN IF found_improvement
        THEN /\ heap' = with_data(heap, address, best_move_data)
             /\ current_fitness' = best_move_fitness
             /\ individual' = Some([ individual[1] EXCEPT !.fitness = best_move_fitness,
                                                        !.is_feasible = best_move_fitness < 1000,
                                                        !.violations = {} ])
        ELSE /\ heap' = with_data(heap, address, original_assignment_data)
             /\ UNCHANGED << current_fitness, individual >>
  /\ UNCHANGED << ivars, ipc, raised, ret, gvars, cvars, rvars, bvars, dpc, heuristic, grvars,
                  dtvars, evars, lvars, population, new_population, best_individual, gapc,
                  generation, no_improvement_count, rclvars, glsvars, step, ls_section_id,
                  original_assignment_data, attempt, best_move_fitness, best_move_data,
                  found_improvement >>

(***************************************************************************)
(* SpecHillClimb: instances with up to two sections, two rooms and one     *)
(* teacher, then _local_search on an individual that assigns every         *)
(* section.                                                                *)
(***************************************************************************)
InitHillClimb ==
  /\ EmptyInstance /\ ipc = "reg" /\ raised = None /\ SolversIdle
  /\ GraphIdle /\ ColorIdle

NextHillClimb ==
  \/ /\ ipc = "reg"
     /\ Len(curriculums) < HMaxCurriculums
     /\ \E cs \in { {"A"}, {"A", "B"} } :
          \E new_order \in Perms(cs \ course_names_registered) :
            add_curriculum(CurriculumNames[_next_curriculum_id], 1, cs, new_order)
  \/ /\ ipc = "reg"
     /\ Len(rooms) < HMaxRooms
     /\ \E i \in KRoomInputs :
          add_room(RoomNames[_next_room_id], i.capacity, i.available_periods)
  \/ /\ ipc = "reg"
     /\ Len(teachers) < HMaxTeachers
     /\ \E i \in KTeacherInputs :
          add_teacher(TeacherNames[_next_teacher_id], i.course_names, i.available_periods)
  \/ /\ ipc = "reg"
     /\ create_course_sections
  \/ /\ ipc = "ready"
     /\ rooms # << >> /\ teachers # << >>
     /\ \E A \in ConstructedMaps : call_local_search(A)
  \/ ls_step_begin
  \/ ls_attempt
  \/ ls_step_end

SpecHillClimb == InitHillClimb /\ [][NextHillClimb]_vars

\* The number of fields in which two (period, room, teacher) triples differ.
fields_changed(d, e) == Cardinality({ k \in 1..3 : d[k] # e[k] })

\* The values the chosen section's Assignment object holds.
section_data == assignment_data(heap[individual[1].assignments[ls_section_id]])

\* C25: in each step of _local_search every move that is tried differs from
\* the chosen section's assignment at the start of the step in at most one
\* of period, room and teacher; a tried move is accepted only if its fitness
\* is strictly lower than the current fitness; at the end of the step the
\* section's assignment is the accepted move or exactly its start-of-step
\* assignment; and the individual's fitness never goes up during the call.
C25_HillClimbStep ==
  /\ []((lspc \in { "attempts", "apply" } /\ attempt > 0)
          => fields_changed(section_data, original_assignment_data) <= 1)
  /\ []((lspc = "apply" /\ found_improvement) => best_move_fitness < current_fitness)
  /\ [][ ls_step_end =>
           LET data == assignment_data(heap'[individual[1].assignments[ls_section_id]])
           IN IF found_improvement THEN data = best_move_data
              ELSE data = original_assignment_data ]_vars
  /\ [][ (lspc \in { "step", "attempts", "apply" })
           => individual'[1].fitness <= individual[1].fitness ]_vars


(***************************************************************************)
(* SpecRepairLive: _repair_assignments on instances of one curriculum,     *)
(* with its loops running on: the code is sequential, a pass that has been *)
(* started is carried through and followed by the test of "changed".       *)
(***************************************************************************)
NextRepairLive ==
  \/ /\ ipc = "reg"
     /\ Len(curriculums) < RLMaxCurriculums
     /\ \E cs \in { {"A"}, {"A", "B"} } :
          \E new_order \in Perms(cs \ course_names_registered) :
            add_curriculum(CurriculumNames[_next_curriculum_id], 1, cs, new_order)
  \/ /\ ipc = "reg"
     /\ Len(rooms) < RLMaxRooms
     /\ \E i \in KRoomInputs :
          add_room(RoomNames[_next_room_id], i.capacity, i.available_periods)
  \/ /\ ipc = "reg"
     /\ Len(teachers) < RLMaxTeachers
     /\ \E i \in KTeacherInputs :
          add_teacher(TeacherNames[_next_teacher_id], i.course_names, i.available_periods)
  \/ /\ ipc = "reg"
     /\ create_course_sections
  \/ /\ ipc = "ready" /\ rpc = "idle"
     /\ \E s \in DOMAIN course_sections : \E p \in periods :
          \E r \in DOMAIN rooms : \E t \in DOMAIN teachers :
            assign_section(s, p, r, t)
  \/ /\ ipc = "ready"
     /\ \E impl \in { "grasp", "ga" } : \E o \in Perms(DOMAIN assignments) :
          call_repair_assignments(impl, o)
  \/ repair_step
  \/ repair_pass_end

SpecRepairLive ==
  /\ InitRepair /\ [][NextRepairLive]_vars
  /\ WF_vars(repair_step) /\ WF_vars(repair_pass_end)

\* The assignments of A that fail _is_candidate_feasible against the others.
failing(impl, A) ==
  { sid \in DOMAIN A :
      ~ _is_candidate_feasible(impl, sid, A[sid].period, A[sid].room_id, A[sid].teacher_id,
                               others(A, sid)) }

\* C27: _repair_assignments of both classes returns on every input and every
\* shuffle outcome; a replacement takes the replaced assignment out of the
\* failing ones and brings no other assignment into them, so that their
\* number goes down with each replacement and no section is replaced twice;
\* on return every assignment that still fails has no feasible (period,
\* room, qualified teacher) triple against the others.
C27_RepairTerminates ==
  /\ (rpc = "pass") ~> (rpc = "done")
  /\ [][ (repair_step /\ assignments' # assignments) =>
           /\ Head(rtodo) \in failing(rimpl, assignments)
           /\ failing(rimpl, assignments') \subseteq failing(rimpl, assignments) \ { Head(rtodo) }
           /\ Cardinality(failing(rimpl, assignments'))
                < Cardinality(failing(rimpl, assignments)) ]_vars
  /\ [](repair_returned =>
          \A sid \in failing(rimpl, assignments) :
            repair_candidates(rimpl, sid, assignments) = {})

\* A call has returned after a replacement, with an assignment that still
\* fails and one that was repaired.
C27_Witness ==
  /\ repair_returned
  /\ assignments # rinput
  /\ failing(rimpl, assignments) # {}
  /\ Cardinality(failing(rimpl, rinput)) = 2


(***************************************************************************)
(* GRASPTimetabling._local_search (grasp.py 312-411) and the iterations of *)
(* solve() (lines 58-77).                                                  *)
(***************************************************************************)
\* GRASPSolution.__lt__ (lines 17-21).
solution_lt(self, other) ==
  IF self.is_feasible # other.is_feasible THEN self.is_feasible
  ELSE self.cost < other.cost

\* The maps _repair_assignments can return for the dict A with key order
\* key_order: the passes of repair_step and repair_pass_end as a function.
RECURSIVE repair_outcomes(_, _, _, _, _)
repair_outcomes(impl, A, key_order, todo, changed) ==
  IF todo = << >>
  THEN IF changed THEN repair_outcomes(impl, A, key_order, key_order, FALSE) ELSE { A }
  ELSE LET sid == Head(todo)
           a == A[sid]
       IN IF \/ _is_candidate_feasible(impl, sid, a.period, a.room_id, a.teacher_id, others(A, sid))
             \/ repair_candidates(impl, sid, A) = {}
          THEN repair_outcomes(impl, A, key_order, Tail(todo), changed)
          ELSE UNION { repair_outcomes(impl,
                         [ A EXCEPT ![sid] = [ period |-> c[1], room_id |-> c[2],
                                               teacher_id |-> c[3] ] ],
                         key_order, Tail(todo), TRUE) :
                       c \in repair_candidates(impl, sid, A) }

\* The solutions _evaluate_solution (lines 413-441) can return for the dict A.
evaluate_outcomes(A, key_order) ==
  IF check_hard_constraints(A).is_valid
  THEN { GRASPSolution(A, evaluated_cost(A), TRUE, {}) }
  ELSE { GRASPSolution(R, evaluated_cost(R), check_hard_constraints(R).is_valid,
                       check_hard_constraints(R).violations) :
           R \in repair_outcomes("grasp", A, key_order, key_order, FALSE) }

\* _generate_swap_neighbors (lines 351-382), from the i-th key on; the set
\* of periods is walked in ascending order.
RECURSIVE swap_neighbors_from(_, _, _)
swap_neighbors_from(A, key_order, i) ==
  IF i > Len(key_order) THEN << >>
  ELSE LET section_id == key_order[i]
           assignment == A[section_id]
           new_periods == sorted(periods \ { assignment.period })
           new_rooms == sorted(DOMAIN rooms \ { assignment.room_id })
           new_teachers == sorted(qualified_teachers(section_id) \ { assignment.teacher_id })
       IN [ k \in 1..Len(new_periods) |-> [ A EXCEPT ![section_id].period = new_periods[k] ] ]
          \o [ k \in 1..Len(new_rooms) |-> [ A EXCEPT ![section_id].room_id = new_rooms[k] ] ]
          \o [ k \in 1..Len(new_teachers) |->
                 [ A EXCEPT ![section_id].teacher_id = new_teachers[k] ] ]
          \o swap_neighbors_from(A, key_order, i + 1)

_generate_swap_neighbors(A, key_order) == swap_neighbors_from(A, key_order, 1)

\* _generate_exchange_neighbors (lines 384-411) for the sample sampled_ids,
\* from the pair (i, j) on.
RECURSIVE exchange_neighbors_from(_, _, _, _)
exchange_neighbors_from(A, sampled_ids, i, j) ==
  IF i > Len(sampled_ids) THEN << >>
  ELSE IF j > Len(sampled_ids) THEN exchange_neighbors_from(A, sampled_ids, i + 1, i + 2)
  ELSE LET sid1 == sampled_ids[i]
           sid2 == sampled_ids[j]
       IN << [ A EXCEPT ![sid1].period = A[sid2].period, ![sid2].period = A[sid1].period ],
             [ A EXCEPT ![sid1].room_id = A[sid2].room_id, ![sid2].room_id = A[sid1].room_id ] >>
          \o exchange_neighbors_from(A, sampled_ids, i, j + 1)

_generate_exchange_neighbors(A, sampled_ids) == exchange_neighbors_from(A, sampled_ids, 1, 2)

\* _local_search(solution), up to the first test of the while loop.
call_grasp_local_search(solution, key_order) ==
  /\ gpc = "idle" /\ glspc = "idle"
  /\ glspc' = "round"
  /\ current_solution' = Some(solution)
  /\ assignment_order' = key_order
  /\ ls_improved' = TRUE
  /\ iteration' = 0
  /\ ret' = None
  /\ raised' = None
  /\ UNCHANGED << ivars, ipc, gvars, cvars, rvars, bvars, dpc, heuristic, grvars, dtvars, evars,
                  lvars, gavars, rclvars, hcvars, best_solution, grasp_iteration,
                  iteration_results >>

\* One round of the while loop (lines 327-347), accepting every neighbour.
grasp_ls_round_accepting_all ==
  /\ glspc = "round"
  /\ ls_improved /\ iteration < max_local_search_iterations
  /\ iteration' = iteration + 1
  /\ LET current == current_solution[1]
     IN \E sampled_ids \in Perms(DOMAIN current.assignments) :
          LET neighbors == _generate_swap_neighbors(current.assignments, assignment_order)
                             \o _generate_exchange_neighbors(current.assignments, sampled_ids)
          IN IF neighbors = << >>
             THEN ls_improved' = FALSE /\ UNCHANGED current_solution
             ELSE \E neighbor \in evaluate_outcomes(neighbors[1], assignment_order) :
                    /\ current_solution' = Some(neighbor)
                    /\ ls_improved' = TRUE
  /\ UNCHANGED << ivars, ipc, raised, ret, gvars, cvars, rvars, bvars, dpc, heuristic, grvars,
                  dtvars, evars, lvars, gavars, rclvars, hcvars, glspc, assignment_order,
                  best_solution, grasp_iteration, iteration_results >>

\* One round of the while loop (lines 327-347): the neighbours are evaluated
\* in list order, the first one that is better than the current solution
\* replaces it and ends the round.
grasp_ls_round ==
  /\ glspc = "round"
  /\ ls_improved /\ iteration < max_local_search_iterations
  /\ iteration' = iteration + 1
  /\ LET current == current_solution[1]
     IN \E sampled_ids \in Perms(DOMAIN current.assignments) :
          LET neighbors == _generate_swap_neighbors(current.assignments, assignment_order)
                             \o _generate_exchange_neighbors(current.assignments, sampled_ids)
              outcomes(k) == evaluate_outcomes(neighbors[k], assignment_order)
              rejected(k) == \E neighbor \in outcomes(k) : ~ solution_lt(neighbor, current)
          IN \/ \E k \in DOMAIN neighbors : \E neighbor \in outcomes(k) :
                  /\ solution_lt(neighbor, current)
                  /\ \A before \in 1..(k - 1) : rejected(before)
                  /\ current_solution' = Some(neighbor)
                  /\ ls_improved' = TRUE
             \/ /\ \A k \in DOMAIN neighbors : rejected(k)
                /\ ls_improved' = FALSE
                /\ UNCHANGED current_solution
  /\ UNCHANGED << ivars, ipc, raised, ret, gvars, cvars, rvars, bvars, dpc, heuristic, grvars,
                  dtvars, evars, lvars, gavars, rclvars, hcvars, glspc, assignment_order,
                  best_solution, grasp_iteration, iteration_results >>

\* The while loop is left and current_solution returned (line 349), to the
\* caller or to solve() (line 64).
grasp_ls_return ==
  /\ glspc = "round"
  /\ ~ (ls_improved /\ iteration < max_local_search_iterations)
  /\ glspc' = "done"
  /\ IF gpc = "local_search"
     THEN gpc' = "update" /\ UNCHANGED ret
     ELSE ret' = current_solution /\ UNCHANGED gpc
  /\ UNCHANGED << ivars, ipc, raised, gvars, cvars, rvars, bvars, dpc, heuristic, gorder,
                  temp_assignments, dtvars, evars, lvars, gavars, rclvars, hcvars,
                  current_solution, assignment_order, ls_improved, iteration, best_solution,
                  grasp_iteration, iteration_results >>

\* solve(), lines 60-64: the constructed dict is evaluated and, when the
\* solution is feasible, handed to _local_search.
grasp_evaluate_constructed ==
  /\ gpc = "constructed"
  /\ \E solution \in evaluate_outcomes(temp_assignments, assignment_order) :
       /\ current_solution' = Some(solution)
       /\ IF solution.is_feasible
          THEN /\ gpc' = "local_search"
               /\ glspc' = "round"
               /\ ls_improved' = TRUE
               /\ iteration' = 0
          ELSE /\ gpc' = "update"
               /\ UNCHANGED << glspc, ls_improved, iteration >>
  /\ UNCHANGED << ivars, ipc, raised, ret, gvars, cvars, rvars, bvars, dpc, heuristic, gorder,
                  temp_assignments, dtvars, evars, lvars, gavars, rclvars, hcvars,
                  assignment_order, best_solution, grasp_iteration, iteration_results >>

\* solve(), lines 66-77: the best solution is updated; the next iteration
\* starts with its shuffle, or the best solution is returned.
grasp_update_best ==
  /\ gpc = "update"
  /\ LET solution == current_solution[1]
         best == IF best_solution = None \/ solution_lt(solution, best_solution[1])
                 THEN Some(solution) ELSE best_solution
     IN /\ best_solution' = best
        /\ iteration_results' = iteration_results \cup { solution }
        /\ grasp_iteration' = grasp_iteration + 1
        /\ IF grasp_iteration + 1 < max_iterations
           THEN /\ \E shuffled \in Perms(DOMAIN course_sections) :
                     /\ gorder' = shuffled
                     /\ assignment_order' = shuffled
                /\ gpc' = "construct"
                /\ temp_assignments' = << >>
                /\ UNCHANGED ret
           ELSE /\ gpc' = "done"
                /\ ret' = best
                /\ UNCHANGED << gorder, temp_assignments, assignment_order >>
  /\ UNCHANGED << ivars, ipc, raised, gvars, cvars, rvars, bvars, dpc, heuristic, dtvars, evars,
                  lvars, gavars, rclvars, hcvars, glspc, current_solution, ls_improved,
                  iteration >>

(***************************************************************************)
(* SpecGraspSearch: instances with up to two sections of one curriculum,   *)
(* one room, one teacher and a preference; _local_search called on every   *)
(* feasible solution of the instance, and solve() with all its iterations. *)
(***************************************************************************)
InitGraspSearch ==
  /\ EmptyInstance /\ ipc = "reg" /\ raised = None /\ SolversIdle
  /\ GraphIdle /\ ColorIdle

NextGraspSearch ==
  \/ /\ ipc = "reg"
     /\ curriculums = << >>
     /\ \E cs \in { {"A"}, {"A", "B"} } :
          \E new_order \in Perms(cs \ course_names_registered) :
            add_curriculum(CurriculumNames[_next_curriculum_id], 1, cs, new_order)
  \/ /\ ipc = "reg"
     /\ rooms = << >>
     /\ add_room(RoomNames[_next_room_id], 1, {1, 2})
  \/ /\ ipc = "reg"
     /\ teachers = << >>
     /\ \E ps \in { {}, {1, 2} } : add_teacher(TeacherNames[_next_teacher_id], {"A", "B"}, ps)
  \/ /\ ipc = "reg"
     /\ rooms # << >> /\ teachers # << >>
     /\ create_course_sections
  \/ /\ ipc = "ready" /\ gpc = "idle" /\ glspc = "idle"
     /\ Len(preferences) < LSMaxPreferences
     /\ \E c \in Courses : \E p \in periods : \E v \in 1..EMaxValue :
          add_preference(c, Some(p), Some(RoomNames[1]), Some(TeacherNames[1]), v)
  \/ /\ ipc = "ready"
     /\ \E A \in ConstructedMaps : \E key_order \in Perms(DOMAIN A) :
          \E solution \in evaluate_outcomes(A, key_order) :
            /\ solution.is_feasible
            /\ call_grasp_local_search(solution, key_order)
  \/ /\ ipc = "ready" /\ glspc = "idle"
     /\ \E shuffled \in Perms(DOMAIN course_sections) : call_grasp_solve(shuffled)
  \/ grasp_construct_step
  \/ grasp_constructed
  \/ grasp_evaluate_constructed
  \/ grasp_ls_round
  \/ grasp_ls_return
  \/ grasp_update_best

SpecGraspSearch == InitGraspSearch /\ [][NextGraspSearch]_vars

\* C26: _local_search is entered only with a feasible solution; each accepted
\* neighbour is feasible and costs strictly less than the solution it
\* replaces; there are at most max_local_search_iterations rounds and the
\* first round without improving neighbour is the last; the solution at hand
\* stays feasible and its cost never goes up, so the returned solution is
\* feasible and costs at most what the input did; and the best solution kept
\* by solve() is one of the iterations' results that none of them precedes
\* under (feasible first, then smaller cost).
C26_GraspLocalSearch ==
  /\ [](glspc = "round" => current_solution[1].is_feasible)
  /\ [][ (grasp_ls_round /\ current_solution' # current_solution) =>
           /\ current_solution'[1].is_feasible
           /\ current_solution'[1].cost < current_solution[1].cost ]_vars
  /\ [](iteration <= max_local_search_iterations)
  /\ [][ (glspc = "round" /\ ~ ls_improved) => glspc' = "done" ]_vars
  /\ [][ (glspc = "round") =>
           /\ current_solution'[1].is_feasible
           /\ current_solution'[1].cost <= current_solution[1].cost ]_vars
  /\ [](best_solution # None =>
          /\ best_solution[1] \in iteration_results
          /\ \A solution \in iteration_results : ~ solution_lt(solution, best_solution[1]))
  /\ []((gpc = "done" /\ glspc # "round") => ret = best_solution)

\* _local_search has returned after a round that accepted a neighbour and a
\* round that found none.
C26_Witness ==
  /\ glspc = "done" /\ gpc = "idle"
  /\ iteration = 2 /\ ~ ls_improved
  /\ ret = current_solution
  /\ Len(course_sections) = 2


\* The pairs that the placed sections induce: (room, period), (teacher,
\* period) and (curriculum, period) of every entry of result_assignments.
induced_room_period ==
  { << result_assignments[s].room_id, result_assignments[s].period >> :
      s \in DOMAIN result_assignments }

induced_teacher_period ==
  { << result_assignments[s].teacher_id, result_assignments[s].period >> :
      s \in DOMAIN result_assignments }

induced_curr_period ==
  UNION { { << curr_id, result_assignments[s].period >> :
              curr_id \in curriculum_ids(course_sections[s]) } :
          s \in DOMAIN result_assignments }

\* C28: at every entry to dfs(idx), and at every later point of the search,
\* ordered_sections is in ascending order of candidate count,
\* result_assignments holds exactly its first idx sections, and the three
\* used sets are exactly the pairs induced by result_assignments.
C28_DfsEntryState ==
  (bpc # "idle") =>
    /\ \A i, j \in DOMAIN ordered_sections :
         i < j => Len(section_candidates[ordered_sections[i]])
                    <= Len(section_candidates[ordered_sections[j]])
    /\ DOMAIN result_assignments = { ordered_sections[i] : i \in 1..Len(stack) }
    /\ used_room_period = induced_room_period
    /\ used_teacher_period = induced_teacher_period
    /\ used_curr_period = induced_curr_period

\* dfs(2) is entered after a placement of the second section, in another
\* period than the first section's, was undone and a later candidate placed.
C28_Witness ==
  /\ bpc = "enter"
  /\ Len(stack) = 2
  /\ stack[2] > 1
  /\ \E k \in 1..(stack[2] - 1) :
       section_candidates[ordered_sections[2]][k][1]
         # result_assignments[ordered_sections[1]].period
  /\ Len(ordered_sections) > 2


\* C29: create_course_sections returns for every instance with at least one
\* room, whatever the room capacities (the largest being 0 included) and the
\* curriculum sizes, and when it has returned every course with students
\* has at least one section.
C29_CreateSectionsTerminates ==
  /\ ipc # "spin"
  /\ ipc = "ready" =>
       \A i \in DOMAIN course_base_info :
         LET cs == course_curriculum_students(course_base_info[i])
         IN SumOver(cs, DOMAIN cs) > 0 => SectionsOf(i) # {}


\* C30: greedy_coloring returns, with a colour for every vertex, whatever the
\* graph, the visiting order and max_colors (a max_colors below the colours
\* a vertex needs included); without order and randomize the vertices are
\* visited in ascending id, and with max_colors = None every vertex gets the
\* smallest colour that no already coloured neighbour has.
C30_GreedyTerminates ==
  /\ [](~ (alg = "greedy" /\ cpc = "spin"))
  /\ []((alg = "greedy" /\ cpc = "done") => DOMAIN vertex_color = vertices)
  /\ [][ (\E mc \in MaxColorsArgs : call_greedy(None, FALSE, mc, << >>)) =>
           /\ Range(order') = vertices
           /\ \A i, j \in DOMAIN order' : i < j => order'[i] < order'[j] ]_vars
  /\ [][ (greedy_step /\ max_colors = None) =>
           LET v == Head(order)
               used == { vertex_color[u] : u \in adj_list[v] \cap DOMAIN vertex_color }
           IN /\ vertex_color'[v] \in Nat \ used
              /\ \A k \in 1..(vertex_color'[v] - 1) : k \in used ]_vars

====
